---------------------------- MODULE Spec2Model ----------------------------
(***************************************************************************)
(* Nexus Dashboard MCP server: the authorization engine, the edit-mode     *)
(* gate, the dispatcher and the audit recorder, as state machines.         *)
(*                                                                         *)
(* Python values are modelled as follows.  A str is a TLA+ string.  An     *)
(* Optional[T] is a sequence of length at most one: None is <<>> and a     *)
(* value v is <<v>>.  A dict is a function from its keys.  A set is a set. *)
(***************************************************************************)
EXTENDS Naturals, Sequences, FiniteSets, TLC

VARIABLES
    now,                 \* wall clock, seconds (datetime.now())
    mcp_api_token,       \* os.environ.get("MCP_API_TOKEN"), Optional[str]
    transport,           \* how this server process is reached: "http" | "stdio"
    api_retry_attempts,  \* settings.api_retry_attempts
    security_config,     \* rows of table security_config, in id order
    cached_config,       \* SecurityConfigService._cached_config, Optional[row]
    cache_timestamp,     \* SecurityConfigService._cache_timestamp, Optional[time]
    toggle,              \* SecurityConfigService.set_edit_mode in progress
    audit_log,           \* rows of table audit_log, in insertion order
    audit_cluster_name,  \* AuditLogger.cluster_name
    cluster_name,        \* AuthMiddleware.cluster_name
    api_client,          \* AuthMiddleware.api_client, Optional[index into clients]
    clients,             \* the NexusAPIClient objects created so far
    upstream,            \* per call, the HTTP requests it sent to Nexus Dashboard
    sse_connections,     \* keys of _sse_connections (api/mcp_transport.py)
    sse_queues,          \* per connection id, the contents of its asyncio.Queue
    sessions,            \* per connection id, its event_generator and its client
    resource_groups,     \* rows of table resource_groups
    resource_group_mappings,  \* rows of table resource_group_mappings
    last_group_id,       \* the last value of the resource_groups id sequence
    last_group_op,       \* the last ResourceGroupService call and its outcome
    spec_files,          \* per API name, the OpenAPI document found on disk
    enabled_apis,        \* APIRegistry.get_enabled_apis(), in iteration order
    loaded_apis,         \* keys of NexusDashboardMCP.loaded_apis
    loaded_operations,   \* NexusDashboardMCP.operations while the APIs are loaded
    loader,              \* load_all_apis: its position, loaded_count and outcome
    calls                \* the requests being served, one record of locals each

envVars == <<mcp_api_token, transport, api_retry_attempts>>
cfgVars == <<security_config, cached_config, cache_timestamp, toggle>>
auditVars == <<audit_log, audit_cluster_name>>
upVars == <<cluster_name, api_client, clients, upstream>>
sseVars == <<sse_connections, sse_queues, sessions>>
rgVars == <<resource_groups, resource_group_mappings, last_group_id, last_group_op>>
catVars == <<spec_files, enabled_apis, loaded_apis, loaded_operations, loader>>

vars == <<now, envVars, sseVars, rgVars, catVars, cfgVars, auditVars, upVars, calls>>

None == <<>>
Some(v) == <<v>>
IsNone(o) == o = <<>>
Get(o) == o[1]

(***************************************************************************)
(* str helpers.                                                            *)
(***************************************************************************)
Char(s, i) == SubSeq(s, i, i)

LowerChars ==
    <<"a","b","c","d","e","f","g","h","i","j","k","l","m",
      "n","o","p","q","r","s","t","u","v","w","x","y","z">>
UpperChars ==
    <<"A","B","C","D","E","F","G","H","I","J","K","L","M",
      "N","O","P","Q","R","S","T","U","V","W","X","Y","Z">>

UpperChar(ch) ==
    IF \E i \in DOMAIN LowerChars : LowerChars[i] = ch
    THEN UpperChars[CHOOSE i \in DOMAIN LowerChars : LowerChars[i] = ch]
    ELSE ch

\* str.upper()
RECURSIVE upper(_)
upper(s) ==
    IF s = "" THEN "" ELSE UpperChar(Char(s, 1)) \o upper(SubSeq(s, 2, Len(s)))

\* str.startswith(prefix)
startswith(s, prefix) ==
    Len(s) >= Len(prefix) /\ SubSeq(s, 1, Len(prefix)) = prefix

\* str.find(ch) for a one-character needle, 1-based; 0 when absent
find(s, ch) ==
    IF \E i \in 1..Len(s) : Char(s, i) = ch
    THEN CHOOSE i \in 1..Len(s) :
            Char(s, i) = ch /\ \A j \in 1..(i - 1) : Char(s, j) # ch
    ELSE 0

\* str.replace(old, new): every non-overlapping occurrence, left to right
RECURSIVE replace(_, _, _)
replace(s, old, new) ==
    IF Len(s) < Len(old) \/ old = "" THEN s
    ELSE IF startswith(s, old)
         THEN new \o replace(SubSeq(s, Len(old) + 1, Len(s)), old, new)
         ELSE Char(s, 1) \o replace(SubSeq(s, 2, Len(s)), old, new)


(***************************************************************************)
(* The stored tables the authorization engine reads.  They do not change   *)
(* while requests are served, so they are definitions.                     *)
(***************************************************************************)

\* table clusters
Clusters ==
    { [id |-> 1, name |-> "prod", url |-> "https://prod", is_active |-> TRUE],
      [id |-> 2, name |-> "lab",  url |-> "https://lab",  is_active |-> TRUE],
      [id |-> 3, name |-> "old",  url |-> "https://old",  is_active |-> FALSE] }

\* table roles with role_operations
Roles ==
    { [name |-> "fabric_reader", edit_mode_enabled |-> FALSE,
       operations |-> {"manage_getFabrics"}],
      [name |-> "vlan_admin", edit_mode_enabled |-> TRUE,
       operations |-> {"manage_deleteVlan"}],
      [name |-> "insights", edit_mode_enabled |-> FALSE,
       operations |-> {"analyze_getFabrics", "manage_retired"}],
      [name |-> "vlan_operator", edit_mode_enabled |-> FALSE,
       operations |-> {"manage_createVlan"}],
      [name |-> "empty", edit_mode_enabled |-> FALSE, operations |-> {}] }

\* table users with user_roles and user_clusters
Users ==
    { [username |-> "alice", api_token |-> "tok-alice", is_active |-> TRUE,
       is_superuser |-> FALSE, roles |-> {"fabric_reader"}, clusters |-> {}],
      [username |-> "bob", api_token |-> "tok-bob", is_active |-> TRUE,
       is_superuser |-> TRUE, roles |-> {}, clusters |-> {}],
      [username |-> "carol", api_token |-> "tok-carol", is_active |-> FALSE,
       is_superuser |-> FALSE, roles |-> {"vlan_admin"}, clusters |-> {1}],
      [username |-> "dave", api_token |-> "tok-dave", is_active |-> TRUE,
       is_superuser |-> FALSE, roles |-> {"vlan_admin"}, clusters |-> {1}],
      [username |-> "erin", api_token |-> "tok-erin", is_active |-> TRUE,
       is_superuser |-> FALSE, roles |-> {"fabric_reader", "insights"},
       clusters |-> {1, 2}],
      [username |-> "frank", api_token |-> "tok-frank", is_active |-> TRUE,
       is_superuser |-> FALSE, roles |-> {"empty"}, clusters |-> {2}],
      [username |-> "grace", api_token |-> "tok-grace", is_active |-> TRUE,
       is_superuser |-> FALSE, roles |-> {"vlan_operator"}, clusters |-> {1}],
      [username |-> "mallory", api_token |-> "shared-secret", is_active |-> TRUE,
       is_superuser |-> FALSE, roles |-> {"empty"}, clusters |-> {}] }

UserByName(username) == CHOOSE u \in Users : u.username = username

\* User.get_all_operations
get_all_operations(user) ==
    UNION { r.operations : r \in { q \in Roles : q.name \in user.roles } }

\* User.has_edit_mode
has_edit_mode(user) ==
    IF user.is_superuser THEN TRUE
    ELSE \E r \in Roles : r.name \in user.roles /\ r.edit_mode_enabled

\* User.get_allowed_cluster_ids
get_allowed_cluster_ids(user) == user.clusters

\* User.can_access_cluster
can_access_cluster(user, cluster_id) ==
    IF user.is_superuser THEN TRUE
    ELSE IF get_allowed_cluster_ids(user) = {} THEN FALSE
    ELSE cluster_id \in get_allowed_cluster_ids(user)

\* UserService.get_user_by_api_token: Optional[User]
get_user_by_api_token(api_token) ==
    IF api_token = "" THEN None
    ELSE IF \E u \in Users : u.api_token = api_token /\ u.is_active
    THEN Some(CHOOSE u \in Users : u.api_token = api_token /\ u.is_active)
    ELSE None

\* CredentialManager.get_cluster: Optional[Cluster]
get_cluster(name) ==
    IF \E k \in Clusters : k.name = name
    THEN Some(CHOOSE k \in Clusters : k.name = name)
    ELSE None

(***************************************************************************)
(* The operation catalog (NexusDashboardMCP.operations after               *)
(* load_all_apis), in load order, and the tools built from it.             *)
(***************************************************************************)
Operations ==
    << [api_name |-> "manage",  operation_id |-> "getFabrics",
        method |-> "GET",    path |-> "/fabrics"],
       [api_name |-> "manage",  operation_id |-> "deleteVlan",
        method |-> "DELETE", path |-> "/vlans/{id}"],
       [api_name |-> "analyze", operation_id |-> "getFabrics",
        method |-> "GET",    path |-> "/insights/fabrics"],
       [api_name |-> "manage",  operation_id |-> "createVlan",
        method |-> "POST",   path |-> "/vlans"],
       [api_name |-> "manage",  operation_id |-> "getVlan",
        method |-> "GET",    path |-> "/fabrics/{fabric}/vlans/{id}"] >>

MaxToolNameLen == 64

\* NexusDashboardMCP._build_tool_from_operation: the tool's name
ToolName(operation) ==
    LET tool_name == operation.api_name \o "_" \o operation.operation_id
    IN  IF Len(tool_name) > MaxToolNameLen
        THEN SubSeq(operation.operation_id, 1, MaxToolNameLen)
        ELSE tool_name

\* the tools list mcp_message builds for tools/list, by name
AllTools == [i \in DOMAIN Operations |-> ToolName(Operations[i])]

(***************************************************************************)
(* Authorization engine (api/mcp_transport.py).                            *)
(***************************************************************************)
InvalidAuth ==
    [is_valid |-> FALSE, user |-> None, allowed_operations |-> None,
     has_edit_mode |-> FALSE, is_legacy_token |-> FALSE]

\* the bearer token of an Authorization header value, Optional[str]
ExtractToken(authorization) ==
    IF IsNone(authorization) \/ Get(authorization) = "" THEN None
    ELSE IF startswith(Get(authorization), "Bearer ")
         THEN Some(SubSeq(Get(authorization), 8, Len(Get(authorization))))
         ELSE authorization

\* a resolution that looks the user up before it compares the shared secret
validate_token_user_first(authorization, expected_token) ==
    LET token == ExtractToken(authorization) IN
    IF IsNone(token) \/ Get(token) = "" THEN InvalidAuth
    ELSE LET user == get_user_by_api_token(Get(token)) IN
         IF ~IsNone(user)
         THEN LET allowed_ops == get_all_operations(Get(user)) IN
              [is_valid |-> TRUE, user |-> Some(Get(user).username),
               allowed_operations |->
                   IF allowed_ops # {} THEN Some(allowed_ops) ELSE None,
               has_edit_mode |-> has_edit_mode(Get(user)),
               is_legacy_token |-> FALSE]
         ELSE IF ~IsNone(expected_token) /\ Get(expected_token) # ""
                 /\ Get(token) = Get(expected_token)
         THEN [is_valid |-> TRUE, user |-> None, allowed_operations |-> None,
               has_edit_mode |-> TRUE, is_legacy_token |-> TRUE]
         ELSE InvalidAuth

\* validate_token(authorization) under MCP_API_TOKEN = expected_token
validate_token(authorization, expected_token) ==
    LET token == ExtractToken(authorization) IN
    IF IsNone(token) \/ Get(token) = "" THEN InvalidAuth
    ELSE IF ~IsNone(expected_token) /\ Get(expected_token) # ""
            /\ Get(token) = Get(expected_token)
    THEN [is_valid |-> TRUE, user |-> None, allowed_operations |-> None,
          has_edit_mode |-> TRUE, is_legacy_token |-> TRUE]
    ELSE LET user == get_user_by_api_token(Get(token)) IN
         IF ~IsNone(user)
         THEN LET allowed_ops == get_all_operations(Get(user)) IN
              [is_valid |-> TRUE, user |-> Some(Get(user).username),
               allowed_operations |->
                   IF allowed_ops # {} THEN Some(allowed_ops) ELSE None,
               has_edit_mode |-> has_edit_mode(Get(user)),
               is_legacy_token |-> FALSE]
         ELSE InvalidAuth

\* a listing that filters nothing
filter_tools_for_user_unfiltered(tools, auth_result) == tools

\* filter_tools_for_user(tools, auth_result): the names of the tools kept
filter_tools_for_user(tools, auth_result) ==
    IF auth_result.is_legacy_token \/ IsNone(auth_result.user) THEN tools
    ELSE IF UserByName(Get(auth_result.user)).is_superuser THEN tools
    ELSE IF IsNone(auth_result.allowed_operations) THEN <<>>
    ELSE LET Keep(tool_name) == tool_name \in Get(auth_result.allowed_operations)
         IN  SelectSeq(tools, Keep)

\* an operation check that permits every tool
can_execute_tool_any(tool_name, auth_result) == TRUE

\* can_execute_tool(tool_name, auth_result)
can_execute_tool(tool_name, auth_result) ==
    IF auth_result.is_legacy_token \/ IsNone(auth_result.user) THEN TRUE
    ELSE IF UserByName(Get(auth_result.user)).is_superuser THEN TRUE
    ELSE IF ~IsNone(auth_result.allowed_operations)
            /\ tool_name \in Get(auth_result.allowed_operations)
    THEN TRUE
    ELSE FALSE

\* the candidate names of the cluster parameter, in scan order
cluster_param_names == <<"cluster", "cluster_name", "clusterName">>

\* the value validate_cluster_access takes as the cluster name: that of the
\* first candidate present in the arguments, whatever it is (the loop breaks)
ClusterNameOf(tool_arguments) ==
    IF \E i \in DOMAIN cluster_param_names :
            cluster_param_names[i] \in DOMAIN tool_arguments
    THEN LET first == CHOOSE i \in DOMAIN cluster_param_names :
                 /\ cluster_param_names[i] \in DOMAIN tool_arguments
                 /\ \A j \in 1..(i - 1) :
                        cluster_param_names[j] \notin DOMAIN tool_arguments
         IN  Some(tool_arguments[cluster_param_names[first]])
    ELSE None

Allowed == [allowed |-> TRUE, error |-> None]
Denied(error_msg) == [allowed |-> FALSE, error |-> Some(error_msg)]

\* a cluster check that exempts nobody: a principal without a user record
\* has no cluster, a user has the clusters assigned to it
validate_cluster_access_no_bypass(user, tool_arguments, is_legacy_token) ==
    LET name == ClusterNameOf(tool_arguments) IN
    IF IsNone(name) \/ Get(name) = "" THEN Allowed
    ELSE LET cluster == get_cluster(Get(name)) IN
         IF IsNone(cluster)
         THEN Denied("Cluster '" \o Get(name) \o "' not found")
         ELSE IF IsNone(user)
                 \/ Get(cluster).id \notin UserByName(Get(user)).clusters
         THEN Denied("Access denied to cluster '" \o Get(name) \o "'")
         ELSE Allowed

\* validate_cluster_access(user, tool_arguments, is_legacy_token)
validate_cluster_access(user, tool_arguments, is_legacy_token) ==
    IF is_legacy_token \/ IsNone(user) THEN Allowed
    ELSE IF UserByName(Get(user)).is_superuser THEN Allowed
    ELSE LET name == ClusterNameOf(tool_arguments) IN
         IF IsNone(name) \/ Get(name) = "" THEN Allowed
         ELSE LET cluster == get_cluster(Get(name)) IN
              IF IsNone(cluster)
              THEN Denied("Cluster '" \o Get(name) \o "' not found")
              ELSE IF ~can_access_cluster(UserByName(Get(user)), Get(cluster).id)
              THEN Denied("Access denied to cluster '" \o Get(name) \o "'")
              ELSE Allowed

(***************************************************************************)
(* Edit-mode gate (middleware/security.py) and the cached configuration    *)
(* it reads (services/security_service.py).                                *)
(***************************************************************************)
WRITE_METHODS == {"POST", "PUT", "DELETE", "PATCH"}
READ_METHODS == {"GET", "HEAD", "OPTIONS"}

\* SecurityMiddleware.is_write_operation
is_write_operation(method) == upper(method) \in WRITE_METHODS

\* SecurityMiddleware.is_read_operation
is_read_operation(method) == upper(method) \in READ_METHODS

\* whether check_operation_allowed awaits is_edit_mode_enabled for the method
NeedsEditMode(method) ==
    ~is_read_operation(upper(method)) /\ is_write_operation(upper(method))

\* a gate that compares the method as given, without folding its case
check_operation_allowed_case_sensitive(method, edit_mode_enabled) ==
    IF method \in READ_METHODS THEN Allowed
    ELSE IF method \in WRITE_METHODS
    THEN IF ~edit_mode_enabled
         THEN Denied("Edit mode required for " \o method
                     \o " operations. Current mode: READ-ONLY.")
         ELSE Allowed
    ELSE Denied("Unsupported HTTP method: " \o method)

\* SecurityMiddleware.check_operation_allowed, given the value that
\* is_edit_mode_enabled returns (read only for a write method)
check_operation_allowed(method, edit_mode_enabled) ==
    LET method_upper == upper(method) IN
    IF is_read_operation(method_upper) THEN Allowed
    ELSE IF is_write_operation(method_upper)
    THEN IF ~edit_mode_enabled
         THEN Denied("Edit mode required for " \o method_upper
                     \o " operations. Current mode: READ-ONLY.")
         ELSE Allowed
    ELSE Denied("Unsupported HTTP method: " \o method)

CACHE_TTL_SECONDS == 30

\* SecurityConfigService._is_cache_valid
is_cache_valid ==
    IF IsNone(cached_config) \/ IsNone(cache_timestamp) THEN FALSE
    ELSE now - Get(cache_timestamp) < CACHE_TTL_SECONDS

\* the newest row of security_config (order_by id desc, limit 1)
LatestConfig ==
    IF security_config = <<>> THEN None
    ELSE Some(security_config[Len(security_config)])

\* a default row that switches edit mode on
DefaultConfigEnabled == [edit_mode_enabled |-> TRUE]

\* the row get_security_config inserts when the table is empty
DefaultConfig == [edit_mode_enabled |-> FALSE]

\* the stored edit-mode value as GET /api/security/edit-mode reports it
StoredEditMode ==
    IF security_config = <<>> THEN FALSE
    ELSE security_config[1].edit_mode_enabled

(***************************************************************************)
(* Requests.  Each request being served is a record of the locals of its   *)
(* handler and its position (pc).  A request enters over HTTP              *)
(* (POST /mcp/message, api/mcp_transport.py) or over stdio (the call_tool  *)
(* handler registered in NexusDashboardMCP.run).                           *)
(***************************************************************************)
MaxCalls == 2
CallIds == 1..MaxCalls

IdleCall ==
    [pc |-> "idle", authorization |-> None, auth |-> InvalidAuth, rpc |-> "",
     name |-> "", arguments |-> <<>>, op_check |-> None, cluster_check |-> None,
     username |-> None, operation_id |-> "", api_name |-> "", method |-> "",
     path |-> "", gate |-> None, fetched |-> None, attempt |-> 0,
     bearer |-> None, last_exception |-> None, pending |-> None,
     client |-> None, persisted |-> None, contents |-> None, result |-> None,
     listed |-> None, session_id |-> None, streams |-> None]

\* requests are numbered in the order they arrive
MayArrive(c) ==
    /\ calls[c].pc = "idle"
    /\ c > 1 => calls[c - 1].pc # "idle"

Finish(c, fields) == calls' = [calls EXCEPT ![c] = fields @@ [@ EXCEPT !.pc = "done"]]
Goto(c, pc, fields) == calls' = [calls EXCEPT ![c] = fields @@ [@ EXCEPT !.pc = pc]]

ErrorResult(code, message) ==
    Some([kind |-> "error", code |-> code, message |-> message])

(***************************************************************************)
(* Streaming sessions (GET /mcp/sse).  A connection id is a fresh uuid4;   *)
(* the ids are handed out in the order of SessionOrder.                    *)
(***************************************************************************)
MaxSessions == 2
SessionOrder == <<"sse-1", "sse-2", "sse-3">>
SessionIds == {SessionOrder[k] : k \in 1..MaxSessions}

\* a connection id before GET /mcp/sse has created it
NoSession ==
    [pc |-> "none", client |-> "none", emitted |-> <<>>, waited |-> 0,
     open_for |-> 0, in_flight |-> {}]

\* _sse_connections = {} at import; no stream has been requested
NoStreams ==
    /\ sse_connections = {}
    /\ sse_queues = [s \in SessionIds |-> <<>>]
    /\ sessions = [s \in SessionIds |-> NoSession]

\* the resource-group tables before any group is created
NoResourceGroups ==
    /\ resource_groups = {}
    /\ resource_group_mappings = {}
    /\ last_group_id = 0
    /\ last_group_op = [seq |-> 0, op |-> "", force |-> FALSE, result |-> None]

\* the catalog before load_all_apis is looked at: the dispatcher's catalog
\* is Operations
NoCatalog ==
    /\ spec_files = <<>>
    /\ enabled_apis = <<>>
    /\ loaded_apis = {}
    /\ loaded_operations = <<>>
    /\ loader = [pc |-> "idle", next |-> 1, loaded_count |-> 0, raised |-> "",
                 totals |-> <<>>]

\* session_id = connection_id or mcp_session_id (X-Connection-Id first; an
\* absent or empty header is falsy)
session_id_of(headers) ==
    IF ~IsNone(headers.connection_id) /\ Get(headers.connection_id) # ""
    THEN headers.connection_id
    ELSE headers.mcp_session_id

\* a request without session headers
NoSessionHeaders == [connection_id |-> None, mcp_session_id |-> None]

\* the queues after mcp_message has handed response_data to the streams:
\* the queue of session_id when that id is registered, else every
\* registered queue
put_response(session_id, response_data) ==
    IF ~IsNone(session_id) /\ Get(session_id) # ""
       /\ Get(session_id) \in sse_connections
    THEN [sse_queues EXCEPT ![Get(session_id)] = Append(@, response_data)]
    ELSE [s \in SessionIds |->
             IF s \in sse_connections THEN Append(sse_queues[s], response_data)
             ELSE sse_queues[s]]

\* mcp_message returns a response it built inside its try block: the
\* response goes to the streams and to the HTTP caller
\* The streams field records the registry at that moment and the queues the
\* response was put on.
Respond(c, fields) ==
    LET queues == put_response(calls[c].session_id,
                               [id |-> c, kind |-> Get(fields.result).kind])
    IN
    /\ sse_queues' = queues
    /\ Finish(c, fields @@
              [streams |-> Some([registered |-> sse_connections,
                                 put |-> {s \in SessionIds :
                                             queues[s] # sse_queues[s]}])])

\* mcp_message returns from its except clause: the error goes to the HTTP
\* caller only
RespondError(c, fields) ==
    /\ UNCHANGED sse_queues
    /\ Finish(c, fields @@
              [streams |-> Some([registered |-> sse_connections, put |-> {}])])

\* the parameters handle_call_tool declares, besides self
handle_call_tool_params == {"name", "arguments"}

\* the keyword arguments mcp_message passes to handle_call_tool
transport_kwargs == {"username", "client_ip"}

\* whether a call passing these keyword arguments binds (else TypeError)
BindsHandleCallTool(kwargs) == kwargs \subseteq handle_call_tool_params

user_info(auth_result) ==
    IF IsNone(auth_result.user) THEN ""
    ELSE " for user '" \o Get(auth_result.user) \o "'"

\* mcp_message up to method dispatch: validate_token, 401 when invalid
McpMessageAuth(c, authorizations, session_headers) ==
    /\ transport = "http"
    /\ MayArrive(c)
    /\ \E authorization \in authorizations, headers \in session_headers :
         LET auth_result == validate_token(authorization, mcp_api_token) IN
         IF ~auth_result.is_valid
         THEN Finish(c, [authorization |-> authorization, auth |-> auth_result,
                         result |-> Some([kind |-> "http_error", code |-> "401",
                             message |-> "Invalid or missing API token"])])
         ELSE Goto(c, "t_route", [authorization |-> authorization,
                                  auth |-> auth_result,
                                  session_id |-> session_id_of(headers)])
    /\ UNCHANGED <<now, envVars, catVars, rgVars, sseVars, cfgVars, auditVars, upVars>>

\* mcp_message, method "tools/list"
McpMessageToolsList(c) ==
    /\ calls[c].pc = "t_route"
    /\ Respond(c, [rpc |-> "tools/list",
                   listed |-> Some(filter_tools_for_user(AllTools, calls[c].auth)),
                   result |-> Some([kind |-> "result", code |-> "", message |-> ""])])
    /\ UNCHANGED <<now, envVars, catVars, rgVars, sse_connections, sessions, cfgVars, auditVars, upVars>>

\* mcp_message, method "tools/call", up to the call of handle_call_tool
McpMessageToolsCall(c, requests) ==
    /\ calls[c].pc = "t_route"
    /\ \E request \in requests :
         LET tool_name == request.name
             tool_arguments == request.arguments
             auth_result == calls[c].auth
             req == [rpc |-> "tools/call", name |-> tool_name,
                     arguments |-> tool_arguments]
             op_ok == can_execute_tool(tool_name, auth_result)
             cluster == validate_cluster_access(auth_result.user, tool_arguments,
                                                auth_result.is_legacy_token)
             username ==
                 IF ~IsNone(auth_result.user) THEN auth_result.user
                 ELSE IF auth_result.is_legacy_token THEN Some("legacy_token")
                 ELSE None
         IN
         IF tool_name = ""
         THEN Respond(c, req @@ [result |-> ErrorResult("-32602", "Missing tool name")])
         ELSE IF ~op_ok
         THEN Respond(c, req @@ [op_check |-> Some(FALSE),
                  result |-> ErrorResult("-32600",
                      "Permission denied" \o user_info(auth_result)
                      \o ": operation '" \o tool_name \o "' not allowed")])
         ELSE IF ~cluster.allowed
         THEN Respond(c, req @@ [op_check |-> Some(TRUE),
                  cluster_check |-> Some(cluster),
                  result |-> ErrorResult("-32600",
                      "Cluster access denied" \o user_info(auth_result)
                      \o ": " \o Get(cluster.error))])
         ELSE IF ~BindsHandleCallTool(transport_kwargs)
         THEN \* TypeError, caught by mcp_message's except Exception, which
              \* returns the error to the HTTP caller only
              RespondError(c, req @@ [op_check |-> Some(TRUE),
                  cluster_check |-> Some(cluster),
                  result |-> ErrorResult("-32603",
                      "handle_call_tool() got an unexpected keyword argument")])
         ELSE /\ Goto(c, "h_resolve", req @@ [op_check |-> Some(TRUE),
                     cluster_check |-> Some(cluster), username |-> username])
              /\ UNCHANGED sse_queues
    /\ UNCHANGED <<now, envVars, catVars, rgVars, sse_connections, sessions, cfgVars, auditVars, upVars>>

\* the call_tool handler registered in run(): handle_call_tool(name, arguments);
\* the stdio client sends its next call when the previous one has returned
HandleToolCall(c, requests) ==
    /\ transport = "stdio"
    /\ MayArrive(c)
    /\ c > 1 => calls[c - 1].pc = "done"
    /\ \E request \in requests :
         Goto(c, "h_resolve", [rpc |-> "tools/call", name |-> request.name,
                               arguments |-> request.arguments])
    /\ UNCHANGED <<now, envVars, catVars, rgVars, sseVars, cfgVars, auditVars, upVars>>

(***************************************************************************)
(* Dispatcher: NexusDashboardMCP.handle_call_tool (core/mcp_server.py).    *)
(***************************************************************************)

\* re.findall(r'\{([^}]+)\}', path)
RECURSIVE path_params(_)
path_params(path) ==
    IF path = "" THEN <<>>
    ELSE LET rest == SubSeq(path, 2, Len(path)) IN
         IF Char(path, 1) = "{" /\ find(rest, "}") >= 2
         THEN <<SubSeq(rest, 1, find(rest, "}") - 1)>>
              \o path_params(SubSeq(rest, find(rest, "}") + 1, Len(rest)))
         ELSE path_params(rest)

\* name.split("_", 1), or the default API for a name without "_"
SplitName(name) ==
    IF find(name, "_") > 0
    THEN [api_name |-> SubSeq(name, 1, find(name, "_") - 1),
          operation_id |-> SubSeq(name, find(name, "_") + 1, Len(name))]
    ELSE [api_name |-> "manage", operation_id |-> name]

\* next((op for op in self.operations if op["operation_id"] == operation_id), None)
FindOperation(operation_id) ==
    IF \E i \in DOMAIN Operations : Operations[i].operation_id = operation_id
    THEN Some(Operations[CHOOSE i \in DOMAIN Operations :
                 /\ Operations[i].operation_id = operation_id
                 /\ \A j \in 1..(i - 1) :
                        Operations[j].operation_id # operation_id])
    ELSE None

\* the loop over path_params: None at the first placeholder missing from the
\* arguments, else the path with every placeholder replaced
RECURSIVE Substitute(_, _, _)
Substitute(path, params, arguments) ==
    IF params = <<>> THEN Some(path)
    ELSE IF Head(params) \in DOMAIN arguments
    THEN Substitute(replace(path, "{" \o Head(params) \o "}", arguments[Head(params)]),
                    Tail(params), arguments)
    ELSE None

FirstMissing(params, arguments) ==
    params[CHOOSE i \in DOMAIN params :
              /\ params[i] \notin DOMAIN arguments
              /\ \A j \in 1..(i - 1) : params[j] \in DOMAIN arguments]

\* handle_call_tool returns its contents: to the stdio client, or to
\* mcp_message, which wraps them into the JSON-RPC result
Return(c, contents, fields) ==
    Finish(c, fields @@ [contents |-> Some(contents),
                         result |-> Some([kind |-> "result", code |-> "", message |-> ""])])

\* handle_call_tool up to the security check: find the operation, substitute
\* the path parameters
ResolveOperation(c) ==
    /\ calls[c].pc = "h_resolve"
    /\ LET split == SplitName(calls[c].name)
           operation == FindOperation(split.operation_id)
       IN
       IF IsNone(operation)
       THEN Return(c, [kind |-> "error", type |-> "",
                       error |-> "Operation " \o split.operation_id \o " not found",
                       required_parameters |-> <<>>],
                   [operation_id |-> split.operation_id])
       ELSE LET op == Get(operation)
                params == path_params(op.path)
                path == Substitute(op.path, params, calls[c].arguments)
            IN
            IF IsNone(path)
            THEN Return(c, [kind |-> "error", type |-> "",
                            error |-> "Missing required path parameter: "
                                      \o FirstMissing(params, calls[c].arguments),
                            required_parameters |-> params],
                        [operation_id |-> split.operation_id, method |-> op.method,
                         api_name |-> op.api_name])
            ELSE Goto(c, "h_gate",
                      [operation_id |-> split.operation_id, method |-> op.method,
                       api_name |-> op.api_name, path |-> Get(path)])
    /\ UNCHANGED <<now, envVars, catVars, rgVars, sseVars, cfgVars, auditVars, upVars>>

\* whether a set_edit_mode of the service is between its commit and its return
ToggleInProgress == toggle.pc # "idle"

\* what follows check_operation_allowed: enforce_security raises
\* PermissionError when denied, and handle_call_tool then awaits
\* log_operation(error_message=...) before it returns the error.  The gate
\* field records the decision, the edit-mode value it was taken on, the
\* stored value at that moment and whether the check overlapped a toggle.
AfterGate(c, decision, seen, overlapped, fields) ==
    LET gate == Some([allowed |-> decision.allowed, error |-> decision.error,
                      edit_mode_seen |-> seen, stored |-> StoredEditMode,
                      overlapped |-> overlapped])
    IN
    IF calls[c].rpc = "enforce_security"
    THEN Finish(c, fields @@ [gate |-> gate])
    ELSE IF decision.allowed
    THEN Goto(c, "h_exec", fields @@ [gate |-> gate])
    ELSE Goto(c, "h_audit", fields @@ [gate |-> gate,
              pending |-> Some([response_status |-> None,
                                error_message |-> decision.error]),
              contents |-> Some([kind |-> "error", type |-> "PermissionError",
                                 error |-> Get(decision.error),
                                 required_parameters |-> <<>>])])

\* SecurityMiddleware.enforce_security(method, ...) called on its own: it
\* returns, or raises PermissionError, when check_operation_allowed has decided
EnforceSecurityCall(c, methods) ==
    /\ MayArrive(c)
    /\ \E method \in methods :
         Goto(c, "h_gate", [rpc |-> "enforce_security", method |-> method])
    /\ UNCHANGED <<now, envVars, catVars, rgVars, sseVars, cfgVars, auditVars, upVars>>

\* enforce_security -> check_operation_allowed, up to the first await: a read
\* or unknown method is decided at once, a write method with a valid cache
\* is decided from the cached configuration, else the database is queried
EnforceSecurity(c) ==
    /\ calls[c].pc = "h_gate"
    /\ IF ~NeedsEditMode(calls[c].method)
       THEN AfterGate(c, check_operation_allowed(calls[c].method, FALSE), None,
                      ToggleInProgress, <<>>)
       ELSE IF is_cache_valid
       THEN AfterGate(c, check_operation_allowed(calls[c].method,
                             Get(cached_config).edit_mode_enabled),
                      Some(Get(cached_config).edit_mode_enabled),
                      ToggleInProgress, <<>>)
       ELSE Goto(c, "h_gate_db", [gate |-> Some([overlapped |-> ToggleInProgress])])
    /\ UNCHANGED <<now, envVars, catVars, rgVars, sseVars, cfgVars, auditVars, upVars>>

\* get_security_config: the select (order by id desc, limit 1)
GetSecurityConfigSelect(c) ==
    /\ calls[c].pc = "h_gate_db"
    /\ IF IsNone(LatestConfig)
       THEN Goto(c, "h_gate_insert", <<>>)
       ELSE Goto(c, "h_gate_store", [fetched |-> LatestConfig])
    /\ UNCHANGED <<now, envVars, catVars, rgVars, sseVars, cfgVars, auditVars, upVars>>

\* get_security_config found no row: it adds the default row and commits
GetSecurityConfigInsert(c) ==
    /\ calls[c].pc = "h_gate_insert"
    /\ security_config' = Append(security_config, DefaultConfig)
    /\ Goto(c, "h_gate_store", [fetched |-> Some(DefaultConfig)])
    /\ UNCHANGED <<now, envVars, catVars, rgVars, sseVars, auditVars, upVars, cached_config, cache_timestamp, toggle>>

\* get_security_config resumes with the row, stores it in the cache and
\* returns it; check_operation_allowed decides on it
GetSecurityConfigStore(c) ==
    /\ calls[c].pc = "h_gate_store"
    /\ cached_config' = calls[c].fetched
    /\ cache_timestamp' = Some(now)
    /\ AfterGate(c, check_operation_allowed(calls[c].method,
                        Get(calls[c].fetched).edit_mode_enabled),
                 Some(Get(calls[c].fetched).edit_mode_enabled),
                 Get(calls[c].gate).overlapped \/ ToggleInProgress, <<>>)
    /\ UNCHANGED <<now, envVars, catVars, rgVars, sseVars, auditVars, upVars, security_config, toggle>>

(***************************************************************************)
(* Edit-mode toggles and the clock.                                        *)
(***************************************************************************)
\* the number of edit-mode toggles considered
MaxToggles == 1

InGate(c) == calls[c].pc \in {"h_gate_db", "h_gate_insert", "h_gate_store"}

\* every check in progress has now overlapped a toggle
MarkOverlapped ==
    [c \in CallIds |->
        IF InGate(c) THEN [calls[c] EXCEPT !.gate = Some([overlapped |-> TRUE])]
        ELSE calls[c]]

\* SecurityConfigService.set_edit_mode up to its commit: the newest row is
\* updated, or a row is inserted into an empty table
SetEditModeCommit(enabled) ==
    /\ toggle.pc = "idle"
    /\ toggle.count < MaxToggles
    /\ security_config' =
         IF security_config = <<>> THEN <<[edit_mode_enabled |-> enabled]>>
         ELSE [security_config EXCEPT
                  ![Len(security_config)].edit_mode_enabled = enabled]
    /\ toggle' = [pc |-> "committed", enabled |-> enabled, count |-> toggle.count + 1]
    /\ calls' = MarkOverlapped
    /\ UNCHANGED <<now, envVars, catVars, rgVars, sseVars, auditVars, upVars, cached_config, cache_timestamp>>

\* SecurityConfigService.set_edit_mode from its commit on: _invalidate_cache,
\* then it returns
SetEditModeInvalidate ==
    /\ toggle.pc = "committed"
    /\ cached_config' = None
    /\ cache_timestamp' = None
    /\ toggle' = [toggle EXCEPT !.pc = "idle"]
    /\ UNCHANGED <<now, envVars, catVars, rgVars, sseVars, auditVars, upVars, security_config, calls>>

\* PUT /api/security/edit-mode (api/web_api.py set_edit_mode): the row that
\* an unordered "limit 1" returns is updated, or a row is inserted into an
\* empty table; the endpoint does not touch the cache of the server's
\* SecurityConfigService
WebSetEditMode(enabled) ==
    /\ toggle.count < MaxToggles
    /\ toggle' = [toggle EXCEPT !.count = @ + 1]
    /\ IF security_config = <<>>
       THEN security_config' = <<[edit_mode_enabled |-> enabled]>>
       ELSE \E i \in DOMAIN security_config :
                security_config' =
                    [security_config EXCEPT ![i].edit_mode_enabled = enabled]
    /\ calls' = MarkOverlapped
    /\ UNCHANGED <<now, envVars, catVars, rgVars, sseVars, auditVars, upVars, cached_config, cache_timestamp>>

TickSeconds == 30
MaxTime == 30

\* time passes
Tick ==
    /\ now + TickSeconds <= MaxTime
    /\ now' = now + TickSeconds
    /\ UNCHANGED <<envVars, catVars, rgVars, sseVars, cfgVars, auditVars, upVars, calls>>


(***************************************************************************)
(* Upstream execution: AuthMiddleware (middleware/auth.py) and             *)
(* NexusAPIClient (services/nexus_api.py).  A client object is a record of *)
(* its session state; a session credential is the number of the login that *)
(* produced it.                                                            *)
(***************************************************************************)
BasePaths ==
    [manage |-> "/api/v1/manage", analyze |-> "/api/v1/analyze",
     infra |-> "/api/v1/infra", onemanage |-> "/api/v1/oneManage"]

get_base_path_for_api(api_name) ==
    IF api_name \in DOMAIN BasePaths THEN Some(BasePaths[api_name]) ELSE None

\* execute_request: the API base path is prepended unless already present
PrefixedPath(path, api_name) ==
    IF startswith(path, "/api/") THEN path
    ELSE IF ~IsNone(get_base_path_for_api(api_name))
    THEN Get(get_base_path_for_api(api_name)) \o path
    ELSE "/api/v1/manage" \o path

RECURSIVE lstrip(_, _)
lstrip(s, ch) ==
    IF s # "" /\ Char(s, 1) = ch THEN lstrip(SubSeq(s, 2, Len(s)), ch) ELSE s

\* CredentialManager.get_credentials: the active cluster of that name
get_credentials(name) ==
    IF \E cl \in Clusters : cl.name = name /\ cl.is_active
    THEN Some(CHOOSE cl \in Clusters : cl.name = name /\ cl.is_active)
    ELSE None

\* NexusAPIClient(base_url=...): no session yet
NexusAPIClient(base_url) ==
    [base_url |-> base_url, cookies |-> None, access_token |-> None, logins |-> 0]

\* how Nexus Dashboard answers POST /login: 200 with a set-cookie header,
\* 200 with a token in the body, 200 with neither, or a failure
LoginOutcomes == {"cookie", "token", "bare", "fail"}

\* the client after authenticate() has processed the answer
Authenticated(cl, outcome) ==
    IF outcome = "cookie"
    THEN [cl EXCEPT !.cookies = Some(cl.logins + 1), !.logins = cl.logins + 1]
    ELSE IF outcome = "token"
    THEN [cl EXCEPT !.cookies = None, !.access_token = Some(cl.logins + 1),
                    !.logins = cl.logins + 1]
    ELSE IF outcome = "bare"
    THEN [cl EXCEPT !.cookies = None]
    ELSE cl

\* the value authenticate() returns
AuthenticateOk(outcome) == outcome \in {"cookie", "token"}

\* how Nexus Dashboard answers a request: success, 401, or another failure
\* (an error status, or no answer: the HTTP client raises)
Replies == {"ok", "401", "error"}

Send(c, entry) == upstream' = [upstream EXCEPT ![c] = Append(@, entry)]

LoginEntry(cl) ==
    [kind |-> "login", method |-> "POST", url |-> cl.base_url \o "/login",
     bearer |-> None, cookies |-> None]

RequestEntry(cl, method, path, bearer) ==
    [kind |-> "request", method |-> upper(method),
     url |-> cl.base_url \o "/" \o lstrip(path, "/"),
     bearer |-> bearer, cookies |-> cl.cookies]

\* an exception reaches handle_call_tool's handler around execute_request:
\* it awaits log_operation(error_message=str(e)) and returns the error
Fail(c, type, message, fields) ==
    Goto(c, "h_audit",
         fields @@ [pending |-> Some([response_status |-> None,
                                      error_message |-> Some(message)]),
                    contents |-> Some([kind |-> "error", type |-> type,
                                       error |-> message,
                                       required_parameters |-> <<>>])])

\* request(): iteration `attempt` of the retry loop sends the request with
\* the headers built before the loop and the client's current cookies; when
\* the loop is exhausted without an exception request() returns None, and
\* execute_request fails on response.headers
Attempt(c, cl, attempt, bearer, fields) ==
    IF attempt < api_retry_attempts
    THEN /\ Send(c, RequestEntry(cl, calls[c].method,
                     PrefixedPath(calls[c].path, calls[c].api_name), bearer))
         /\ Goto(c, "r_send", fields @@ [attempt |-> attempt, bearer |-> bearer])
    ELSE /\ UNCHANGED upstream
         /\ Fail(c, "RuntimeError",
                 "API request failed: 'NoneType' object has no attribute 'headers'",
                 fields)

\* request() up to its first await: log in when the client has no session,
\* else build the headers and enter the retry loop
Request(c, k, cl, fields) ==
    IF IsNone(cl.cookies) /\ IsNone(cl.access_token)
    THEN /\ Send(c, LoginEntry(cl))
         /\ Goto(c, "r_login", fields @@ [client |-> Some(k)])
    ELSE Attempt(c, cl, 0, cl.access_token, fields @@ [client |-> Some(k)])

\* execute_request -> get_api_client up to its first await.  With the
\* configured cluster name "default" the code calls
\* credential_manager.get_first_active_cluster_credentials(), which
\* CredentialManager does not define: AttributeError
GetApiClient(c) ==
    /\ calls[c].pc = "h_exec"
    /\ IF ~IsNone(api_client)
       THEN Request(c, Get(api_client), clients[Get(api_client)], <<>>)
       ELSE /\ UNCHANGED upstream
            /\ IF cluster_name = "default"
               THEN Fail(c, "AttributeError",
                         "'CredentialManager' object has no attribute "
                         \o "'get_first_active_cluster_credentials'", <<>>)
               ELSE Goto(c, "h_creds", <<>>)
    /\ UNCHANGED <<now, envVars, catVars, rgVars, sseVars, cfgVars, auditVars, cluster_name, api_client, clients>>

\* get_api_client resumes with the credentials: none raises RuntimeError,
\* else a new client replaces self.api_client and logs in
GetCredentials(c) ==
    /\ calls[c].pc = "h_creds"
    /\ LET credentials == get_credentials(cluster_name) IN
       IF IsNone(credentials)
       THEN /\ Fail(c, "RuntimeError",
                    "No credentials found for cluster '" \o cluster_name \o "'", <<>>)
            /\ UNCHANGED <<api_client, clients, upstream>>
       ELSE /\ clients' = Append(clients, NexusAPIClient(Get(credentials).url))
            /\ api_client' = Some(Len(clients) + 1)
            /\ Send(c, LoginEntry(NexusAPIClient(Get(credentials).url)))
            /\ Goto(c, "h_login", [client |-> Some(Len(clients) + 1)])
    /\ UNCHANGED <<now, envVars, catVars, rgVars, sseVars, cfgVars, auditVars, cluster_name>>

\* get_api_client resumes with the answer to its login
GetApiClientLogin(c) ==
    /\ calls[c].pc = "h_login"
    /\ \E outcome \in LoginOutcomes :
         LET k == Get(calls[c].client)
             cl == Authenticated(clients[k], outcome)
         IN
         /\ clients' = [clients EXCEPT ![k] = cl]
         /\ IF AuthenticateOk(outcome)
            THEN Request(c, k, cl, <<>>)
            ELSE /\ UNCHANGED upstream
                 /\ Fail(c, "RuntimeError",
                         "Failed to authenticate with cluster '" \o cluster_name \o "'",
                         <<>>)
    /\ UNCHANGED <<now, envVars, catVars, rgVars, sseVars, cfgVars, auditVars, cluster_name, api_client>>

\* request() resumes with the answer to the login it started
RequestLogin(c) ==
    /\ calls[c].pc = "r_login"
    /\ \E outcome \in LoginOutcomes :
         LET k == Get(calls[c].client)
             cl == Authenticated(clients[k], outcome)
         IN
         /\ clients' = [clients EXCEPT ![k] = cl]
         /\ IF AuthenticateOk(outcome)
            THEN Attempt(c, cl, 0, cl.access_token, <<>>)
            ELSE /\ UNCHANGED upstream
                 /\ Fail(c, "RuntimeError",
                         "API request failed: Failed to authenticate with Nexus Dashboard",
                         <<>>)
    /\ UNCHANGED <<now, envVars, catVars, rgVars, sseVars, cfgVars, auditVars, cluster_name, api_client>>

\* request() resumes with the answer to an attempt
RequestReply(c) ==
    /\ calls[c].pc = "r_send"
    /\ \E reply \in Replies :
         LET k == Get(calls[c].client)
             attempt == calls[c].attempt
         IN
         IF reply = "401" /\ attempt = 0
         THEN /\ Send(c, LoginEntry(clients[k]))
              /\ Goto(c, "r_reauth", <<>>)
         ELSE IF reply = "ok"
         THEN /\ UNCHANGED upstream
              /\ Goto(c, "h_audit",
                      [pending |-> Some([response_status |-> Some(200),
                                         error_message |-> None]),
                       contents |-> Some([kind |-> "response", type |-> "",
                                          error |-> "",
                                          required_parameters |-> <<>>])])
         ELSE IF attempt < api_retry_attempts - 1
         THEN Attempt(c, clients[k], attempt + 1, calls[c].bearer,
                      [last_exception |-> Some(reply)])
         ELSE /\ UNCHANGED upstream
              /\ Fail(c, "RuntimeError", "API request failed: " \o reply,
                      [last_exception |-> Some(reply)])
    /\ UNCHANGED <<now, envVars, catVars, rgVars, sseVars, cfgVars, auditVars, cluster_name, api_client, clients>>

\* request() resumes with the answer to the login that followed a 401; the
\* result of authenticate() is not looked at, the loop continues
RequestReauth(c) ==
    /\ calls[c].pc = "r_reauth"
    /\ \E outcome \in LoginOutcomes :
         LET k == Get(calls[c].client)
             cl == Authenticated(clients[k], outcome)
         IN
         /\ clients' = [clients EXCEPT ![k] = cl]
         /\ Attempt(c, cl, 1, calls[c].bearer, <<>>)
    /\ UNCHANGED <<now, envVars, catVars, rgVars, sseVars, cfgVars, auditVars, cluster_name, api_client>>

(***************************************************************************)
(* Audit: AuditLogger.log_operation (middleware/logging.py).               *)
(***************************************************************************)
\* _get_cluster_id_by_name
cluster_id_by_name(name) ==
    IF \E cl \in Clusters : cl.name = name
    THEN Some((CHOOSE cl \in Clusters : cl.name = name).id)
    ELSE None

\* a row that records every call as answered with status 200
AuditEntryStatus200(c) ==
    [call |-> c,
     cluster_id |-> cluster_id_by_name(audit_cluster_name),
     user_id |-> None,
     operation_id |-> calls[c].operation_id,
     http_method |-> upper(calls[c].method),
     path |-> calls[c].path,
     response_status |-> Some(200),
     error_message |-> Get(calls[c].pending).error_message]

\* the row log_operation adds for the call; handle_call_tool passes neither
\* user_id nor client_ip nor cluster_name
AuditEntry(c) ==
    [call |-> c,
     cluster_id |-> cluster_id_by_name(audit_cluster_name),
     user_id |-> None,
     operation_id |-> calls[c].operation_id,
     http_method |-> upper(calls[c].method),
     path |-> calls[c].path,
     response_status |-> Get(calls[c].pending).response_status,
     error_message |-> Get(calls[c].pending).error_message]

\* how one log_operation call ends in the database: the row is committed,
\* or the cluster lookup, the insert or the commit raises
AuditFailures == {"lookup", "insert", "commit"}
AuditOutcomes == {"committed"} \cup AuditFailures

\* a log_operation without its except clause: a database failure leaves it
\* as an exception
log_operation_reraises(outcome) ==
    IF outcome \in AuditFailures THEN "raised" ELSE "returned"

\* log_operation as its caller sees it: the whole body is inside
\* try/except Exception, a failure is logged and swallowed
log_operation(outcome) == "returned"

\* handle_call_tool awaits log_operation and returns.  The row is committed
\* or a step fails.  An exception out of log_operation would be handled by
\* the try blocks around the call: after a successful request by the
\* handler of the request's try (log the error, return it), elsewhere by
\* the outermost handler (return the error).
LogOperation(c) ==
    /\ calls[c].pc = "h_audit"
    /\ \E outcome \in AuditOutcomes :
         LET persisted == outcome = "committed"
             message == "audit log " \o outcome \o " failed"
         IN
         /\ audit_log' = IF persisted THEN Append(audit_log, AuditEntry(c))
                         ELSE audit_log
         /\ IF log_operation(outcome) = "returned"
            THEN Return(c, Get(calls[c].contents), [persisted |-> Some(persisted)])
            ELSE IF Get(calls[c].pending).response_status = Some(200)
            THEN Fail(c, "SQLAlchemyError", message, <<>>)
            ELSE Return(c, [kind |-> "error", type |-> "SQLAlchemyError",
                            error |-> message, required_parameters |-> <<>>],
                        [persisted |-> Some(persisted)])
    /\ UNCHANGED <<now, envVars, catVars, rgVars, sseVars, cfgVars, audit_cluster_name, upVars>>


(***************************************************************************)
(* Specifications.                                                         *)
(***************************************************************************)
\* the retry budgets considered (settings.api_retry_attempts, at least 1)
MaxRetryAttempts == 2
RetryAttempts == 1..MaxRetryAttempts

\* the command line's --cluster of the stdio server
ConfiguredClusters == {"default", "prod", "old"}

\* The state after construction.  The security_config table is shared with
\* the administrative web API and is read as found: empty (the HTTP server
\* does not initialise it), or holding one row.
Init ==
    /\ now = 0
    /\ transport \in {"http", "stdio"}
    /\ mcp_api_token \in IF transport = "http" THEN {None, Some("shared-secret")}
                        ELSE {None}
    /\ api_retry_attempts \in IF transport = "http" THEN {MaxRetryAttempts}
                             ELSE RetryAttempts
    /\ security_config \in {<<>>, <<[edit_mode_enabled |-> FALSE]>>,
                            <<[edit_mode_enabled |-> TRUE]>>}
    /\ cached_config = None
    /\ cache_timestamp = None
    /\ toggle = [pc |-> "idle", enabled |-> FALSE, count |-> 0]
    /\ audit_log = <<>>
    /\ cluster_name \in IF transport = "http" THEN {"default"} ELSE ConfiguredClusters
    /\ audit_cluster_name = cluster_name
    /\ api_client = None
    /\ clients = <<>>
    /\ upstream = [c \in CallIds |-> <<>>]
    /\ calls = [c \in CallIds |-> IdleCall]
    /\ NoStreams
    /\ NoResourceGroups
    /\ NoCatalog

\* the requests of the system specification
Authorizations ==
    {None, Some("Bearer tok-alice"), Some("Bearer tok-dave"),
     Some("Bearer shared-secret")}

Requests ==
    {[name |-> "manage_getFabrics", arguments |-> <<>>],
     [name |-> "manage_getFabrics", arguments |-> [cluster |-> "prod"]],
     [name |-> "manage_deleteVlan", arguments |-> <<>>],
     [name |-> "manage_deleteVlan", arguments |-> [id |-> "10"]],
     [name |-> "manage_missing", arguments |-> <<>>]}

Dispatch(c) ==
    \/ ResolveOperation(c)
    \/ EnforceSecurity(c)
    \/ GetSecurityConfigSelect(c)
    \/ GetSecurityConfigInsert(c)
    \/ GetSecurityConfigStore(c)
    \/ GetApiClient(c)
    \/ GetCredentials(c)
    \/ GetApiClientLogin(c)
    \/ RequestLogin(c)
    \/ RequestReply(c)
    \/ RequestReauth(c)
    \/ LogOperation(c)

Next ==
    \/ \E c \in CallIds :
         \/ McpMessageAuth(c, Authorizations, {NoSessionHeaders})
         \/ McpMessageToolsList(c)
         \/ McpMessageToolsCall(c, Requests)
         \/ HandleToolCall(c, Requests)
         \/ Dispatch(c)
    \/ \E enabled \in BOOLEAN : WebSetEditMode(enabled)
    \/ Tick

Spec == Init /\ [][Next]_vars

(***************************************************************************)
(* The authorization functions of the HTTP transport on a wide range of    *)
(* credentials, tool names and argument maps.                              *)
(***************************************************************************)
Tokens == {u.api_token : u \in Users} \cup {"unknown"}

AllAuthorizations ==
    {None, Some(""), Some("Bearer ")}
    \cup {Some(t) : t \in Tokens}
    \cup {Some("Bearer " \o t) : t \in Tokens}

AllToolNames ==
    {AllTools[i] : i \in DOMAIN AllTools} \cup {"", "manage_retired", "getFabrics"}

ClusterKeys == {cluster_param_names[i] : i \in DOMAIN cluster_param_names}
ClusterValues == {"", "prod", "lab", "ghost"}

AllArgumentMaps == UNION {[K -> ClusterValues] : K \in SUBSET ClusterKeys}

AllRequests ==
    {[name |-> n, arguments |-> a] : n \in AllToolNames, a \in AllArgumentMaps}

InitAuth ==
    /\ now = 0
    /\ transport = "http"
    /\ mcp_api_token \in {None, Some(""), Some("shared-secret")}
    /\ api_retry_attempts = MaxRetryAttempts
    /\ security_config = <<>>
    /\ cached_config = None
    /\ cache_timestamp = None
    /\ toggle = [pc |-> "idle", enabled |-> FALSE, count |-> 0]
    /\ audit_log = <<>>
    /\ cluster_name = "default"
    /\ audit_cluster_name = cluster_name
    /\ api_client = None
    /\ clients = <<>>
    /\ upstream = [c \in CallIds |-> <<>>]
    /\ calls = [c \in CallIds |-> IdleCall]
    /\ NoStreams
    /\ NoResourceGroups
    /\ NoCatalog

NextAuth ==
    \/ McpMessageAuth(1, AllAuthorizations, {NoSessionHeaders})
    \/ McpMessageToolsList(1)
    \/ McpMessageToolsCall(1, AllRequests)

SpecAuth == InitAuth /\ [][NextAuth]_vars

(***************************************************************************)
(* The edit-mode gate on its own: enforce_security called with a wide      *)
(* range of methods, concurrently with toggles of either kind.             *)
(***************************************************************************)
Methods ==
    {"GET", "get", "POST", "Post", "PUT", "DELETE", "delete", "PATCH",
     "HEAD", "options", "TRACE", ""}

InitGate ==
    /\ now = 0
    /\ transport = "stdio"
    /\ mcp_api_token = None
    /\ api_retry_attempts = MaxRetryAttempts
    /\ security_config \in {<<>>, <<[edit_mode_enabled |-> FALSE]>>,
                            <<[edit_mode_enabled |-> TRUE]>>}
    /\ cached_config = None
    /\ cache_timestamp = None
    /\ toggle = [pc |-> "idle", enabled |-> FALSE, count |-> 0]
    /\ audit_log = <<>>
    /\ cluster_name = "default"
    /\ audit_cluster_name = cluster_name
    /\ api_client = None
    /\ clients = <<>>
    /\ upstream = [c \in CallIds |-> <<>>]
    /\ calls = [c \in CallIds |-> IdleCall]
    /\ NoStreams
    /\ NoResourceGroups
    /\ NoCatalog

NextGate ==
    \/ \E c \in CallIds :
         \/ EnforceSecurityCall(c, Methods)
         \/ EnforceSecurity(c)
         \/ GetSecurityConfigSelect(c)
         \/ GetSecurityConfigInsert(c)
         \/ GetSecurityConfigStore(c)
    \/ \E enabled \in BOOLEAN : SetEditModeCommit(enabled)
    \/ SetEditModeInvalidate
    \/ \E enabled \in BOOLEAN : WebSetEditMode(enabled)
    \/ Tick

SpecGate == InitGate /\ [][NextGate]_vars

(***************************************************************************)
(* Properties.                                                             *)
(***************************************************************************)
Done(c) == calls[c].pc = "done"

\* a tools/call that passed authentication and names a tool
ToolCall(c) ==
    /\ calls[c].rpc = "tools/call"
    /\ calls[c].name # ""

\* the audit rows written for call c
AuditRecordsOf(c) == {i \in DOMAIN audit_log : audit_log[i].call = c}

\* the JSON-RPC error mcp_message answers with, by code and message prefix
RejectedWith(c, code, prefix) ==
    /\ ~IsNone(calls[c].result)
    /\ Get(calls[c].result).kind = "error"
    /\ Get(calls[c].result).code = code
    /\ startswith(Get(calls[c].result).message, prefix)

\* the gate has decided on call c
GateDecided(c) ==
    /\ ~IsNone(calls[c].gate)
    /\ "allowed" \in DOMAIN Get(calls[c].gate)

\* call c was denied by the gate because its write method met edit mode off
GateDenied(c) ==
    /\ GateDecided(c)
    /\ NeedsEditMode(calls[c].method)
    /\ ~Get(calls[c].gate).allowed

\* C1: every tools/call that reaches the HTTP server with a valid credential
\* and a tool name has, once answered, exactly one audit record, whatever
\* its outcome.
ExactlyOneAuditRecord ==
    \A c \in CallIds :
        (transport = "http" /\ Done(c) /\ ToolCall(c) /\ calls[c].auth.is_valid)
        => Cardinality(AuditRecordsOf(c)) = 1

\* the users that are no superuser and are permitted exactly one operation
SingleOperationUsers ==
    {u \in Users : ~u.is_superuser /\ Cardinality(get_all_operations(u)) = 1}

\* C2: for a non-superuser user permitted exactly the operation A, a tool
\* listing holds tool A and nothing else, and a tools/call of any other tool
\* is answered with the permission-denied error, is never handed to the
\* dispatcher and sends nothing upstream.
SingleOperationUserConfined ==
    \A c \in CallIds : \A u \in SingleOperationUsers :
        (transport = "http" /\ calls[c].auth.is_valid
            /\ calls[c].auth.user = Some(u.username))
        => /\ (Done(c) /\ calls[c].rpc = "tools/list")
              => /\ ~IsNone(calls[c].listed)
                 /\ Len(Get(calls[c].listed)) = 1
                 /\ Get(calls[c].listed)[1] \in get_all_operations(u)
           /\ (ToolCall(c) /\ calls[c].name \notin get_all_operations(u))
              => /\ Done(c)
                 /\ RejectedWith(c, "-32600", "Permission denied")
                 /\ calls[c].op_check = Some(FALSE)
                 /\ IsNone(calls[c].contents)
                 /\ IsNone(calls[c].gate)
                 /\ upstream[c] = <<>>
                 /\ AuditRecordsOf(c) = {}

\* C2 happens: alice, permitted manage_getFabrics only, was denied
\* manage_deleteVlan, and dave, permitted manage_deleteVlan only, listed it
SingleOperationUserDenied ==
    \E c, d \in CallIds :
        /\ Done(c) /\ calls[c].auth.user = Some("alice")
        /\ calls[c].name = "manage_deleteVlan"
        /\ calls[c].op_check = Some(FALSE)
        /\ Done(d) /\ calls[d].auth.user = Some("dave")
        /\ calls[d].listed = Some(<<"manage_deleteVlan">>)

\* the principal of call c is the legacy token or a superuser
Privileged(c) ==
    /\ calls[c].auth.is_valid
    /\ \/ calls[c].auth.is_legacy_token
       \/ /\ ~IsNone(calls[c].auth.user)
          /\ UserByName(Get(calls[c].auth.user)).is_superuser

\* C3: for the legacy token and for a superuser the operation check passes
\* for every tool name and the cluster check for every argument map.
PrivilegedNeverDenied ==
    \A c \in CallIds :
        (Done(c) /\ ToolCall(c) /\ Privileged(c))
        => /\ calls[c].op_check = Some(TRUE)
           /\ calls[c].cluster_check = Some(Allowed)

\* C3 happens: the superuser bob passed both checks on a tool that is in no
\* role, naming a cluster that does not exist
SuperuserPassedUnknownCluster ==
    \E c \in CallIds :
        /\ Done(c) /\ calls[c].auth.user = Some("bob")
        /\ calls[c].name = "manage_retired"
        /\ calls[c].arguments = [cluster |-> "ghost"]
        /\ calls[c].op_check = Some(TRUE)
        /\ calls[c].cluster_check = Some(Allowed)

\* the arguments name a cluster under one of the cluster parameters
NamesCluster(tool_arguments) ==
    \E k \in ClusterKeys \cap DOMAIN tool_arguments : tool_arguments[k] # ""

\* C4: a non-superuser user with no assigned cluster is denied by the
\* cluster check whenever the arguments name a cluster, and allowed by it
\* whenever they hold none of the cluster parameters.
EmptyClusterSetDenied ==
    \A c \in CallIds : \A u \in Users :
        (Done(c) /\ ToolCall(c) /\ calls[c].auth.user = Some(u.username)
            /\ ~u.is_superuser /\ get_allowed_cluster_ids(u) = {}
            /\ ~IsNone(calls[c].cluster_check))
        => /\ NamesCluster(calls[c].arguments)
              => ~Get(calls[c].cluster_check).allowed
           /\ ClusterKeys \cap DOMAIN calls[c].arguments = {}
              => Get(calls[c].cluster_check).allowed

\* C5: validate_token resolves by the first matching rule: no credential is
\* invalid; the configured shared secret is the legacy principal, also when
\* a user's stored token has that value; an active user's token is that
\* user; anything else is invalid.
ResolutionOrder ==
    \A c \in CallIds :
        calls[c].pc # "idle" =>
        LET credential == ExtractToken(calls[c].authorization)
            result == calls[c].auth
        IN
        IF IsNone(credential) \/ credential = Some("")
        THEN ~result.is_valid
        ELSE IF mcp_api_token = credential
        THEN /\ result.is_valid /\ result.is_legacy_token
             /\ IsNone(result.user) /\ result.has_edit_mode
        ELSE IF \E u \in Users : u.is_active /\ u.api_token = Get(credential)
        THEN /\ result.is_valid /\ ~result.is_legacy_token
             /\ ~IsNone(result.user)
             /\ UserByName(Get(result.user)).api_token = Get(credential)
             /\ UserByName(Get(result.user)).is_active
        ELSE ~result.is_valid

\* C5 happens: the shared secret, which is also mallory's stored token,
\* resolved to the legacy principal
SharedSecretResolvedLegacy ==
    \E c \in CallIds :
        /\ calls[c].authorization = Some("Bearer shared-secret")
        /\ mcp_api_token = Some("shared-secret")
        /\ \E u \in Users : u.is_active /\ u.api_token = "shared-secret"
        /\ calls[c].auth.is_legacy_token

\* enforce_security has returned or raised for the direct check c
Checked(c) == Done(c) /\ calls[c].rpc = "enforce_security"

\* C6: the gate decides by the method, compared case-insensitively: GET,
\* HEAD and OPTIONS are allowed whatever the edit-mode value; POST, PUT,
\* DELETE and PATCH are allowed exactly when the value read is true and
\* else denied with a message; every other verb is denied.
GateDecidesByMethod ==
    \A c \in CallIds :
        Checked(c) =>
        LET gate == Get(calls[c].gate)
            verb == upper(calls[c].method)
        IN
        IF verb \in {"GET", "HEAD", "OPTIONS"}
        THEN gate.allowed /\ IsNone(gate.error)
        ELSE IF verb \in {"POST", "PUT", "DELETE", "PATCH"}
        THEN /\ ~IsNone(gate.edit_mode_seen)
             /\ gate.allowed = Get(gate.edit_mode_seen)
             /\ ~gate.allowed
                => /\ ~IsNone(gate.error)
                   /\ startswith(Get(gate.error), "Edit mode required for " \o verb)
        ELSE /\ ~gate.allowed
             /\ ~IsNone(gate.error)
             /\ startswith(Get(gate.error), "Unsupported HTTP method")

\* C6 happens: a HEAD was allowed, a lower-case delete was denied on edit
\* mode off
HeadAllowedDeleteDenied ==
    \E c, d \in CallIds :
        /\ Checked(c) /\ calls[c].method = "HEAD" /\ Get(calls[c].gate).allowed
        /\ Checked(d) /\ calls[d].method = "delete"
        /\ ~Get(calls[d].gate).allowed
        /\ Get(calls[d].gate).edit_mode_seen = Some(FALSE)

\* C6 as first stated: every verb other than GET and the four write methods
\* is denied.
OnlyGetIsRead ==
    \A c \in CallIds :
        (Checked(c)
            /\ upper(calls[c].method) \notin {"GET", "POST", "PUT", "DELETE", "PATCH"})
        => ~Get(calls[c].gate).allowed

\* C7: a gate check on a write method that overlaps no toggle decides on the
\* stored edit-mode value, the one the last toggle left.
GateUsesStoredValue ==
    \A c \in CallIds :
        (GateDecided(c) /\ NeedsEditMode(calls[c].method)
            /\ ~Get(calls[c].gate).overlapped)
        => Get(calls[c].gate).edit_mode_seen = Some(Get(calls[c].gate).stored)

Permitted(c) ==
    \/ Privileged(c)
    \/ /\ ~IsNone(calls[c].auth.user)
       /\ calls[c].name \in get_all_operations(UserByName(Get(calls[c].auth.user)))

\* C9: over HTTP the authorization checks run before the edit-mode gate,
\* the operation check first: a call by a principal that is not permitted
\* the tool ends with the permission-denied error before the cluster check
\* and before the gate are evaluated, whatever the method and edit mode.
AuthorizationBeforeGate ==
    \A c \in CallIds :
        (transport = "http" /\ calls[c].auth.is_valid /\ ToolCall(c)
            /\ ~Permitted(c))
        => /\ Done(c)
           /\ RejectedWith(c, "-32600", "Permission denied")
           /\ calls[c].op_check = Some(FALSE)
           /\ IsNone(calls[c].cluster_check)
           /\ IsNone(calls[c].gate)

\* the tool call c names an operation with a write method
NamesWriteOperation(c) ==
    /\ ~IsNone(FindOperation(SplitName(calls[c].name).operation_id))
    /\ is_write_operation(
           Get(FindOperation(SplitName(calls[c].name).operation_id)).method)

\* C9 happens: alice, not permitted manage_deleteVlan, called it while edit
\* mode was off and got the authorization denial
UnauthorizedWriteWhileReadOnly ==
    \E c \in CallIds :
        /\ transport = "http" /\ Done(c)
        /\ calls[c].auth.user = Some("alice")
        /\ calls[c].name = "manage_deleteVlan"
        /\ NamesWriteOperation(c)
        /\ ~StoredEditMode /\ toggle.count = 0
        /\ RejectedWith(c, "-32600", "Permission denied")

\* C9 as first stated: a write call made while read-only by a user who is
\* not permitted the operation ends with the edit-mode denial.
GateBeforeAuthorization ==
    \A c \in CallIds :
        (transport = "http" /\ Done(c) /\ calls[c].auth.is_valid /\ ToolCall(c)
            /\ NamesWriteOperation(c) /\ ~Permitted(c)
            /\ ~StoredEditMode /\ toggle.count = 0)
        => /\ ~IsNone(calls[c].contents)
           /\ Get(calls[c].contents).type = "PermissionError"

\* an audit row of call c with no response status and an error message
DenialRecordOf(c) ==
    {i \in AuditRecordsOf(c) :
        /\ IsNone(audit_log[i].response_status)
        /\ ~IsNone(audit_log[i].error_message)
        /\ Get(audit_log[i].error_message) # ""}

PathRequests ==
    {[name |-> "manage_getFabrics", arguments |-> <<>>],
     [name |-> "manage_deleteVlan", arguments |-> <<>>],
     [name |-> "manage_deleteVlan", arguments |-> [id |-> "10"]],
     [name |-> "manage_getVlan", arguments |-> <<>>],
     [name |-> "manage_getVlan", arguments |-> [id |-> "7"]],
     [name |-> "manage_getVlan", arguments |-> [fabric |-> "f1", id |-> "7"]],
     [name |-> "manage_getVlan", arguments |-> [fabric |-> "{id}", id |-> "7"]]}

InitResolve ==
    /\ now = 0
    /\ transport = "stdio"
    /\ mcp_api_token = None
    /\ api_retry_attempts = 1
    /\ security_config \in {<<>>, <<[edit_mode_enabled |-> TRUE]>>}
    /\ cached_config = None
    /\ cache_timestamp = None
    /\ toggle = [pc |-> "idle", enabled |-> FALSE, count |-> 0]
    /\ audit_log = <<>>
    /\ cluster_name = "prod"
    /\ audit_cluster_name = cluster_name
    /\ api_client = None
    /\ clients = <<>>
    /\ upstream = [c \in CallIds |-> <<>>]
    /\ calls = [c \in CallIds |-> IdleCall]
    /\ NoStreams
    /\ NoResourceGroups
    /\ NoCatalog

NextResolve ==
    \E c \in CallIds :
        \/ HandleToolCall(c, PathRequests)
        \/ Dispatch(c)

SpecResolve == InitResolve /\ [][NextResolve]_vars

\* the operation the dispatcher resolves for the tool name of call c
ResolvedOperation(c) == FindOperation(SplitName(calls[c].name).operation_id)

\* the placeholders of the resolved operation that the arguments lack
MissingPlaceholders(c) ==
    {i \in DOMAIN path_params(Get(ResolvedOperation(c)).path) :
        path_params(Get(ResolvedOperation(c)).path)[i]
            \notin DOMAIN calls[c].arguments}

\* the template with every segment "{name}" replaced by the argument value
RECURSIVE FilledPath(_, _)
FilledPath(template, arguments) ==
    IF template = "" THEN ""
    ELSE LET rest == SubSeq(template, 2, Len(template))
             close == find(rest, "}")
         IN
         IF Char(template, 1) = "{" /\ close >= 2
         THEN arguments[SubSeq(rest, 1, close - 1)]
              \o FilledPath(SubSeq(rest, close + 1, Len(rest)), arguments)
         ELSE Char(template, 1) \o FilledPath(rest, arguments)

\* C11: a call whose arguments lack a placeholder of the resolved
\* operation's path ends at once with an error listing all placeholders,
\* with no gate check, no upstream request or login and no audit record;
\* a call whose arguments hold every placeholder goes on with the path in
\* which each placeholder is replaced by its argument value.
PathParametersSubstituted ==
    \A c \in CallIds :
        (calls[c].rpc = "tools/call" /\ calls[c].pc # "h_resolve"
            /\ ~IsNone(ResolvedOperation(c)))
        => IF MissingPlaceholders(c) # {}
           THEN /\ Done(c)
                /\ Get(calls[c].contents).kind = "error"
                /\ startswith(Get(calls[c].contents).error,
                              "Missing required path parameter: ")
                /\ Get(calls[c].contents).required_parameters
                     = path_params(Get(ResolvedOperation(c)).path)
                /\ IsNone(calls[c].gate)
                /\ IsNone(calls[c].client)
                /\ upstream[c] = <<>>
           ELSE calls[c].path
                  = FilledPath(Get(ResolvedOperation(c)).path, calls[c].arguments)

(***************************************************************************)
(* Cluster routing: a server started for one cluster receives calls whose  *)
(* arguments name that cluster, another cluster or none.                   *)
(***************************************************************************)
RouteRequests ==
    {[name |-> "manage_getFabrics", arguments |-> <<>>],
     [name |-> "manage_getFabrics", arguments |-> [cluster |-> "prod"]],
     [name |-> "manage_getFabrics", arguments |-> [cluster |-> "lab"]],
     [name |-> "manage_deleteVlan", arguments |-> [id |-> "10", clusterName |-> "lab"]]}

InitRoute ==
    /\ now = 0
    /\ transport = "stdio"
    /\ mcp_api_token = None
    /\ api_retry_attempts = 1
    /\ security_config \in {<<>>, <<[edit_mode_enabled |-> TRUE]>>}
    /\ cached_config = None
    /\ cache_timestamp = None
    /\ toggle = [pc |-> "idle", enabled |-> FALSE, count |-> 0]
    /\ audit_log = <<>>
    /\ cluster_name \in {"prod", "lab"}
    /\ audit_cluster_name = cluster_name
    /\ api_client = None
    /\ clients = <<>>
    /\ upstream = [c \in CallIds |-> <<>>]
    /\ calls = [c \in CallIds |-> IdleCall]
    /\ NoStreams
    /\ NoResourceGroups
    /\ NoCatalog

NextRoute ==
    \E c \in CallIds :
        \/ HandleToolCall(c, RouteRequests)
        \/ Dispatch(c)

SpecRoute == InitRoute /\ [][NextRoute]_vars

\* the cluster the arguments of call c identify, if it is a known cluster
NamedCluster(c) ==
    IF IsNone(ClusterNameOf(calls[c].arguments)) THEN None
    ELSE get_cluster(Get(ClusterNameOf(calls[c].arguments)))

\* the principal of call c passes the cluster access check for its arguments
ClusterAccessPassed(c) ==
    validate_cluster_access(calls[c].auth.user, calls[c].arguments,
                            calls[c].auth.is_legacy_token) = Allowed

\* C12: when the arguments of a call identify a cluster its principal may
\* access, every upstream login and request of that call goes to the URL of
\* that cluster.
UpstreamIsNamedCluster ==
    \A c \in CallIds :
        (ToolCall(c) /\ ~IsNone(NamedCluster(c)) /\ ClusterAccessPassed(c))
        => \A i \in DOMAIN upstream[c] :
               startswith(upstream[c][i].url, Get(NamedCluster(c)).url \o "/")

\* C13: the step in which handle_call_tool awaits log_operation ends the
\* call with an ordinary result whose contents are those fixed before the
\* audit write, whether the row was committed or a step of the write failed.
AuditFailureInvisible ==
    [][\A c \in CallIds :
          (calls[c].pc = "h_audit" /\ calls'[c] # calls[c])
          => /\ calls'[c].pc = "done"
             /\ calls'[c].contents = calls[c].contents
             /\ Get(calls'[c].result).kind = "result"]_vars

\* a call whose upstream request succeeded returned the response although
\* its audit row was not written
ResponseReturnedWithoutAuditRow ==
    \E c \in CallIds :
        /\ Done(c)
        /\ calls[c].persisted = Some(FALSE)
        /\ AuditRecordsOf(c) = {}
        /\ Get(calls[c].contents).kind = "response"
        /\ Get(calls[c].result).kind = "result"

(***************************************************************************)
(* GET /mcp/sse: mcp_sse_get and its event_generator                       *)
(* (api/mcp_transport.py).  A session's pc is the point at which its       *)
(* generator is suspended: "registered" (response returned, generator not  *)
(* yet iterated), "started" (after the endpoint event), "loop" (top of the *)
(* delivery loop), "waiting" (inside wait_for), "closed" (generator        *)
(* ended).  Time passes only while generators wait: waited is the time     *)
(* the current wait_for has been pending.  emitted and open_for are        *)
(* observations, kept up to MaxEmitted events and MaxOpenSeconds seconds.  *)
(***************************************************************************)
KEEPALIVE_TIMEOUT == 30
SseTickSeconds == 15
MaxOpenSeconds == 60
MaxEmitted == 4

Emit(emitted, event) ==
    IF Len(emitted) < MaxEmitted THEN Append(emitted, event) ELSE emitted

\* the uuid4 the next GET /mcp/sse generates
NextSessionId(s) ==
    \E k \in 1..MaxSessions :
        /\ SessionOrder[k] = s
        /\ sessions[s].pc = "none"
        /\ \A j \in 1..(k - 1) : sessions[SessionOrder[j]].pc # "none"

\* the calls of a session's client that are being served
InFlight(s) ==
    {c \in CallIds : /\ calls[c].pc \notin {"idle", "done"}
                     /\ calls[c].session_id = Some(s)}

\* a finally clause that leaves the registry as it is
event_generator_finally_keeps(connections, connection_id) == connections

\* event_generator's finally: del _sse_connections[connection_id]
event_generator_finally(connections, connection_id) ==
    connections \ {connection_id}

\* the generator ends (break, return or exception) and its finally runs
Close(s) ==
    /\ sse_connections' = event_generator_finally(sse_connections, s)
    /\ sessions' = [sessions EXCEPT ![s].pc = "closed",
                                    ![s].in_flight = InFlight(s)]
    /\ UNCHANGED sse_queues

\* a wait_for that fires after half the time
wait_expired_early(waited) == 2 * waited >= KEEPALIVE_TIMEOUT

\* asyncio.wait_for(conn.queue.get(), timeout=30.0) has timed out
wait_expired(waited) == waited >= KEEPALIVE_TIMEOUT

\* mcp_sse_get: 401 for an invalid credential, else the connection is
\* registered with an empty queue and the streaming response is returned
SseGet(s, authorizations) ==
    /\ transport = "http"
    /\ NextSessionId(s)
    /\ \E authorization \in authorizations :
         IF ~validate_token(authorization, mcp_api_token).is_valid
         THEN UNCHANGED sseVars
         ELSE /\ sse_connections' = sse_connections \cup {s}
              /\ sse_queues' = [sse_queues EXCEPT ![s] = <<>>]
              /\ sessions' = [sessions EXCEPT ![s] =
                                 [NoSession EXCEPT !.pc = "registered",
                                                   !.client = "connected"]]
    /\ UNCHANGED <<now, envVars, catVars, rgVars, cfgVars, auditVars, upVars, calls>>

\* event_generator is iterated: it yields the endpoint event
EventGeneratorStart(s) ==
    /\ sessions[s].pc = "registered"
    /\ sessions' = [sessions EXCEPT ![s].pc = "started",
                                    ![s].emitted = Emit(@, "endpoint")]
    /\ UNCHANGED <<now, envVars, catVars, rgVars, sse_connections, sse_queues, cfgVars, auditVars,
                   upVars, calls>>

\* get_mcp_instance(), then conn = _sse_connections.get(connection_id);
\* without a connection the generator returns
EventGeneratorConn(s) ==
    /\ sessions[s].pc = "started"
    /\ IF s \in sse_connections
       THEN /\ sessions' = [sessions EXCEPT ![s].pc = "loop"]
            /\ UNCHANGED <<sse_connections, sse_queues>>
       ELSE Close(s)
    /\ UNCHANGED <<now, envVars, catVars, rgVars, cfgVars, auditVars, upVars, calls>>

\* top of the loop: break when request.is_disconnected(), else wait_for
EventGeneratorLoop(s) ==
    /\ sessions[s].pc = "loop"
    /\ IF sessions[s].client = "disconnected"
       THEN Close(s)
       ELSE /\ sessions' = [sessions EXCEPT ![s].pc = "waiting", ![s].waited = 0]
            /\ UNCHANGED <<sse_connections, sse_queues>>
    /\ UNCHANGED <<now, envVars, catVars, rgVars, cfgVars, auditVars, upVars, calls>>

\* queue.get() returns a message: it is yielded as a message event
EventGeneratorMessage(s) ==
    /\ sessions[s].pc = "waiting"
    /\ sse_queues[s] # <<>>
    /\ sse_queues' = [sse_queues EXCEPT ![s] = Tail(@)]
    /\ sessions' = [sessions EXCEPT ![s].pc = "loop",
                                    ![s].emitted = Emit(@, "message")]
    /\ UNCHANGED <<now, envVars, catVars, rgVars, sse_connections, cfgVars, auditVars, upVars, calls>>

\* wait_for raises TimeoutError: a keepalive comment is yielded
EventGeneratorKeepalive(s) ==
    /\ sessions[s].pc = "waiting"
    /\ wait_expired(sessions[s].waited)
    /\ sessions' = [sessions EXCEPT ![s].pc = "loop",
                                    ![s].emitted = Emit(@, "keepalive")]
    /\ UNCHANGED <<now, envVars, catVars, rgVars, sse_connections, sse_queues, cfgVars, auditVars,
                   upVars, calls>>

\* the generator is cancelled or closed where it is suspended, or one of
\* its statements raises: except CancelledError / except Exception, finally
EventGeneratorAbort(s) ==
    /\ sessions[s].pc \in {"started", "loop", "waiting"}
    /\ \E cause \in {"cancelled", "error"} : Close(s)
    /\ UNCHANGED <<now, envVars, catVars, rgVars, cfgVars, auditVars, upVars, calls>>

\* the client of the stream goes away
ClientDisconnect(s) ==
    /\ sessions[s].pc \notin {"none", "closed"}
    /\ sessions[s].client = "connected"
    /\ sessions' = [sessions EXCEPT ![s].client = "disconnected"]
    /\ UNCHANGED <<now, envVars, catVars, rgVars, sse_connections, sse_queues, cfgVars, auditVars,
                   upVars, calls>>

\* SseTickSeconds pass.  Generators run in no time: time passes when every
\* open generator is inside a wait_for that has neither a message nor its
\* timeout due.
SseTick ==
    /\ sse_connections # {}
    /\ \A s \in SessionIds :
          \/ sessions[s].pc \in {"none", "closed"}
          \/ /\ sessions[s].pc = "waiting"
             /\ sse_queues[s] = <<>>
             /\ ~wait_expired(sessions[s].waited)
    /\ sessions' = [s \in SessionIds |->
          IF sessions[s].pc = "waiting"
          THEN [sessions[s] EXCEPT
                   !.waited = @ + SseTickSeconds,
                   !.open_for = IF @ < MaxOpenSeconds THEN @ + SseTickSeconds ELSE @]
          ELSE sessions[s]]
    /\ UNCHANGED <<now, envVars, catVars, rgVars, sse_connections, sse_queues, cfgVars, auditVars,
                   upVars, calls>>

\* one step of the generator of session s
EventGenerator(s) ==
    \/ EventGeneratorStart(s)
    \/ EventGeneratorConn(s)
    \/ EventGeneratorLoop(s)
    \/ EventGeneratorMessage(s)
    \/ EventGeneratorKeepalive(s)

(***************************************************************************)
(* Streams: two streaming sessions and one POST /mcp/message whose         *)
(* response goes to their queues, with time.                               *)
(***************************************************************************)
StreamAuthorizations == {None, Some("Bearer tok-alice")}

StreamHeaders ==
    {NoSessionHeaders,
     [connection_id |-> None, mcp_session_id |-> Some("sse-1")]}

InitStream ==
    /\ now = 0
    /\ transport = "http"
    /\ mcp_api_token = None
    /\ api_retry_attempts = MaxRetryAttempts
    /\ security_config = <<>>
    /\ cached_config = None
    /\ cache_timestamp = None
    /\ toggle = [pc |-> "idle", enabled |-> FALSE, count |-> 0]
    /\ audit_log = <<>>
    /\ cluster_name = "default"
    /\ audit_cluster_name = cluster_name
    /\ api_client = None
    /\ clients = <<>>
    /\ upstream = [c \in CallIds |-> <<>>]
    /\ calls = [c \in CallIds |-> IdleCall]
    /\ NoStreams
    /\ NoResourceGroups
    /\ NoCatalog

NextStream ==
    \/ \E s \in SessionIds :
          \/ SseGet(s, StreamAuthorizations)
          \/ EventGenerator(s)
          \/ EventGeneratorAbort(s)
          \/ ClientDisconnect(s)
    \/ SseTick
    \/ McpMessageAuth(1, StreamAuthorizations, StreamHeaders)
    \/ McpMessageToolsList(1)

SpecStream == InitStream /\ [][NextStream]_vars

\* the event loop runs every generator that can run, and timers fire
SpecStreamLive ==
    /\ SpecStream
    /\ \A s \in SessionIds : WF_vars(EventGenerator(s))
    /\ WF_vars(SseTick)

\* the sessions whose generator has not ended
OpenSessions == {s \in SessionIds : sessions[s].pc \notin {"none", "closed"}}

DeliverAuthorizations == {None, Some("Bearer tok-alice")}

DeliverHeaders ==
    {NoSessionHeaders,
     [connection_id |-> Some("sse-1"), mcp_session_id |-> None],
     [connection_id |-> None, mcp_session_id |-> Some("sse-2")],
     [connection_id |-> None, mcp_session_id |-> Some("sse-9")]}

DeliverRequests ==
    {[name |-> "manage_getFabrics", arguments |-> <<>>],
     [name |-> "manage_deleteVlan", arguments |-> [id |-> "10"]]}

NextDeliver ==
    \/ \E c \in CallIds :
          \/ McpMessageAuth(c, DeliverAuthorizations, DeliverHeaders)
          \/ McpMessageToolsList(c)
          \/ McpMessageToolsCall(c, DeliverRequests)
    \/ \E s \in SessionIds :
          \/ SseGet(s, DeliverAuthorizations)
          \/ EventGeneratorStart(s)
          \/ EventGeneratorConn(s)
          \/ EventGeneratorLoop(s)
          \/ EventGeneratorMessage(s)
          \/ EventGeneratorAbort(s)
          \/ ClientDisconnect(s)

SpecDeliver == InitStream /\ [][NextDeliver]_vars

\* call c was answered with a JSON-RPC response
Answered(c) ==
    /\ Done(c)
    /\ ~IsNone(calls[c].streams)
    /\ Get(calls[c].result).kind \in {"result", "error"}

\* C15: a response goes to exactly the queue of the session the request
\* names when that session is open, to the queue of every open session when
\* the request names no session, and to no queue when the request names a
\* session that is not open.
ResponseDeliveredToAddressee ==
    \A c \in CallIds :
        Answered(c)
        => LET registered == Get(calls[c].streams).registered
               put == Get(calls[c].streams).put
               session_id == calls[c].session_id
           IN
           IF IsNone(session_id) THEN put = registered
           ELSE IF Get(session_id) \in registered THEN put = {Get(session_id)}
           ELSE put = {}

\* the keepalives among the events session s has emitted after the first
Keepalives(s) == Len(sessions[s].emitted) - 1

\* session s has been streaming with an empty queue all along, and its
\* observations are complete
QuietSession(s) ==
    /\ sessions[s].pc \notin {"none", "registered"}
    /\ sse_queues[s] = <<>>
    /\ \A i \in DOMAIN sessions[s].emitted : sessions[s].emitted[i] # "message"
    /\ Len(sessions[s].emitted) < MaxEmitted
    /\ sessions[s].open_for < MaxOpenSeconds

\* C16: a session emits the endpoint event first; while its queue stays
\* empty every later event is a keepalive, one at the end of each 30-second
\* wait, so a session closed after 45 seconds has emitted exactly one.
KeepaliveEachWait ==
    \A s \in SessionIds :
        /\ sessions[s].emitted # <<>> => sessions[s].emitted[1] = "endpoint"
        /\ QuietSession(s)
           => /\ \A i \in 2..Len(sessions[s].emitted) :
                     sessions[s].emitted[i] = "keepalive"
              /\ KEEPALIVE_TIMEOUT * Keepalives(s) <= sessions[s].open_for
              /\ sessions[s].open_for
                    < KEEPALIVE_TIMEOUT * (Keepalives(s) + 1) + SseTickSeconds
              /\ (sessions[s].pc = "closed" /\ sessions[s].open_for = 45)
                 => Keepalives(s) = 1

\* a session closed after 45 quiet seconds, having sent one keepalive
ClosedAfter45Seconds ==
    \E s \in SessionIds :
        /\ sessions[s].pc = "closed"
        /\ sessions[s].open_for = 45
        /\ sse_queues[s] = <<>>
        /\ sessions[s].emitted = <<"endpoint", "keepalive">>

\* mcp_message has passed call c to handle_call_tool: the tool is named and
\* permitted and the cluster check has passed
Dispatched(c) ==
    /\ ToolCall(c)
    /\ calls[c].op_check = Some(TRUE)
    /\ calls[c].cluster_check = Some(Allowed)

\* C17: a permitted tools/call that was being served when the stream
\* session of its client closed completes with a tool result and its audit
\* record (written, or attempted and failed in the database).
DispatchSurvivesSessionClose ==
    \A s \in SessionIds, c \in CallIds :
        (c \in sessions[s].in_flight /\ Done(c) /\ Dispatched(c))
        => /\ Get(calls[c].result).kind = "result"
           /\ \/ AuditRecordsOf(c) # {}
              \/ calls[c].persisted = Some(FALSE)

(***************************************************************************)
(* Resource groups: ResourceGroupService (services/resource_group_service) *)
(* over the tables resource_groups and resource_group_mappings.  Each      *)
(* method runs in one database session: it commits all of its writes or,   *)
(* when a statement violates a constraint, raises and rolls all of them    *)
(* back.                                                                   *)
(***************************************************************************)
MaxGroupId == 5
MaxGroupOps == 4

\* table api_endpoints, filled from the loaded OpenAPI documents
api_endpoints ==
    {[api_name |-> Operations[i].api_name,
      operation_id |-> Operations[i].operation_id,
      http_method |-> Operations[i].method,
      path |-> Operations[i].path] : i \in DOMAIN Operations}

RECURSIVE rstrip(_, _)
rstrip(s, ch) ==
    IF s # "" /\ Char(s, Len(s)) = ch THEN rstrip(SubSeq(s, 1, Len(s) - 1), ch)
    ELSE s

\* extract_resource_from_path: path.strip('/').split('/')[0], or 'misc'
extract_resource_from_path(path) ==
    LET stripped == rstrip(lstrip(path, "/"), "/")
        slash == find(stripped, "/")
        first == IF slash = 0 THEN stripped ELSE SubSeq(stripped, 1, slash - 1)
    IN  IF first # "" THEN first ELSE "misc"

\* the key of the default group of an endpoint
group_key_of(ep) == ep.api_name \o "_" \o extract_resource_from_path(ep.path)

\* groups_data: per group key, the operations of the endpoints with that key
groups_data ==
    [key \in {group_key_of(ep) : ep \in api_endpoints} |->
        {[operation_id |-> ep.operation_id, api_name |-> ep.api_name] :
            ep \in {e \in api_endpoints : group_key_of(e) = key}}]

\* a mappings table without its unique constraint
uq_operation_api_absent(mappings) == TRUE

\* UniqueConstraint("operation_id", "api_name", name="uq_operation_api")
uq_operation_api(mappings) ==
    \A m1, m2 \in mappings :
        (m1.operation_id = m2.operation_id /\ m1.api_name = m2.api_name)
        => m1 = m2

\* Column group_key: unique=True
uq_group_key(groups) ==
    \A g1, g2 \in groups : g1.group_key = g2.group_key => g1 = g2

GroupById(group_id) ==
    IF \E g \in resource_groups : g.id = group_id
    THEN Some(CHOOSE g \in resource_groups : g.id = group_id)
    ELSE None

Returned(value) == [raised |-> "", value |-> value]
Raised(exception) == [raised |-> exception, value |-> 0]

\* the outcome of a service call is recorded; calls are counted up to
\* MaxGroupOps
Outcome(op, force, result) ==
    /\ last_group_op.seq < MaxGroupOps
    /\ last_group_op' = [seq |-> last_group_op.seq + 1, op |-> op,
                         force |-> force, result |-> Some(result)]

\* the session commits the tables when they satisfy the constraints, else
\* the statement raises IntegrityError and the session rolls back
Commit(op, force, groups, mappings, group_id, returned) ==
    IF uq_group_key(groups) /\ uq_operation_api(mappings)
    THEN /\ resource_groups' = groups
         /\ resource_group_mappings' = mappings
         /\ last_group_id' = group_id
         /\ Outcome(op, force, returned)
    ELSE /\ UNCHANGED <<resource_groups, resource_group_mappings, last_group_id>>
         /\ Outcome(op, force, Raised("IntegrityError"))

\* a call that reads only, or raises before it writes
NoWrite(op, returned) ==
    /\ UNCHANGED <<resource_groups, resource_group_mappings, last_group_id>>
    /\ Outcome(op, FALSE, returned)

CreateGroup(group_key) ==
    /\ last_group_id < MaxGroupId
    /\ IF \E g \in resource_groups : g.group_key = group_key
       THEN NoWrite("create_group", Raised("ValueError"))
       ELSE Commit("create_group", FALSE,
                   resource_groups \cup
                       {[id |-> last_group_id + 1, group_key |-> group_key,
                         description |-> None, is_enabled |-> TRUE,
                         is_custom |-> TRUE]},
                   resource_group_mappings, last_group_id + 1,
                   Returned(last_group_id + 1))
    /\ UNCHANGED <<now, envVars, catVars, sseVars, cfgVars, auditVars, upVars, calls>>

UpdateGroup(group_id, description, is_enabled) ==
    /\ LET group == GroupById(group_id) IN
       IF IsNone(group)
       THEN NoWrite("update_group", Returned(0))
       ELSE LET updated ==
                    [Get(group) EXCEPT
                        !.description = IF IsNone(description) THEN @ ELSE description,
                        !.is_enabled = IF IsNone(is_enabled) THEN @ ELSE Get(is_enabled)]
            IN
            Commit("update_group", FALSE,
                   (resource_groups \ {Get(group)}) \cup {updated},
                   resource_group_mappings, last_group_id,
                   Returned(group_id))
    /\ UNCHANGED <<now, envVars, catVars, sseVars, cfgVars, auditVars, upVars, calls>>

\* delete_group: custom groups only; the mappings go with the group
\* (cascade="all, delete-orphan")
DeleteGroup(group_id) ==
    /\ LET group == GroupById(group_id) IN
       IF IsNone(group)
       THEN NoWrite("delete_group", Returned(0))
       ELSE IF ~Get(group).is_custom
       THEN NoWrite("delete_group", Raised("ValueError"))
       ELSE Commit("delete_group", FALSE,
                   resource_groups \ {Get(group)},
                   {m \in resource_group_mappings : m.group_id # group_id},
                   last_group_id, Returned(group_id))
    /\ UNCHANGED <<now, envVars, catVars, sseVars, cfgVars, auditVars, upVars, calls>>

\* the loop of add_operations_to_group: per operation, delete its mapping
\* wherever it is, then add it to the group
RECURSIVE AddedTo(_, _, _)
AddedTo(mappings, group_id, operations) ==
    IF operations = <<>> THEN mappings
    ELSE LET op == Head(operations) IN
         AddedTo({m \in mappings : ~(/\ m.operation_id = op.operation_id
                                     /\ m.api_name = op.api_name)}
                    \cup {[group_id |-> group_id, operation_id |-> op.operation_id,
                           api_name |-> op.api_name]},
                 group_id, Tail(operations))

AddOperationsToGroup(group_id, operations) ==
    /\ IF IsNone(GroupById(group_id))
       THEN NoWrite("add_operations_to_group", Returned(0))
       ELSE Commit("add_operations_to_group", FALSE, resource_groups,
                   AddedTo(resource_group_mappings, group_id, operations),
                   last_group_id, Returned(group_id))
    /\ UNCHANGED <<now, envVars, catVars, sseVars, cfgVars, auditVars, upVars, calls>>

\* remove_operations_from_group: by group and operation_id, whatever the API
RemoveOperationsFromGroup(group_id, operation_ids) ==
    /\ IF IsNone(GroupById(group_id))
       THEN NoWrite("remove_operations_from_group", Returned(0))
       ELSE Commit("remove_operations_from_group", FALSE, resource_groups,
                   {m \in resource_group_mappings :
                       ~(m.group_id = group_id /\ m.operation_id \in operation_ids)},
                   last_group_id, Returned(group_id))
    /\ UNCHANGED <<now, envVars, catVars, sseVars, cfgVars, auditVars, upVars, calls>>

\* a check that never finds a group
groups_exist_never(groups) == FALSE

\* select(ResourceGroup).limit(1) returns a row
groups_exist(groups) == groups # {}

\* a generation that rewrites the group it finds under a key
overwrite_existing(group) ==
    [group EXCEPT !.description = Some("Operations for " \o group.group_key),
                  !.is_enabled = TRUE, !.is_custom = FALSE]

\* the group found under a key of groups_data is passed over (continue)
skip_existing(group) == group

\* the keys of groups_data that have no group yet
KeysToCreate ==
    {key \in DOMAIN groups_data :
        ~\E g \in resource_groups : g.group_key = key}

\* the ids the new groups get: flush() per group, in the order of
\* groups_data, which is any order here
NewGroupIds(keys) ==
    {ids \in [keys -> (last_group_id + 1)..(last_group_id + Cardinality(keys))] :
        \A k1, k2 \in keys : ids[k1] = ids[k2] => k1 = k2}

\* the description generate_default_groups builds for a key
default_description(key) ==
    Some("Operations for " \o key \o ". Contains "
         \o ToString(Cardinality(groups_data[key])) \o " operations.")

GenerateDefaultGroups(force) ==
    /\ last_group_id + Cardinality(KeysToCreate) <= MaxGroupId
    /\ IF ~force /\ groups_exist(resource_groups)
       THEN /\ UNCHANGED <<resource_groups, resource_group_mappings, last_group_id>>
            /\ Outcome("generate_default_groups", force, Returned(0))
       ELSE \E ids \in NewGroupIds(KeysToCreate) :
              Commit("generate_default_groups", force,
                     {skip_existing(g) : g \in resource_groups} \cup
                        {[id |-> ids[key], group_key |-> key,
                          description |-> default_description(key),
                          is_enabled |-> TRUE, is_custom |-> FALSE] :
                            key \in KeysToCreate},
                     resource_group_mappings \cup
                        {[group_id |-> ids[group_key_of(ep)],
                          operation_id |-> ep.operation_id,
                          api_name |-> ep.api_name] :
                            ep \in {e \in api_endpoints :
                                       group_key_of(e) \in KeysToCreate}},
                     last_group_id + Cardinality(KeysToCreate),
                     Returned(Cardinality(KeysToCreate)))
    /\ UNCHANGED <<now, envVars, catVars, sseVars, cfgVars, auditVars, upVars, calls>>

(***************************************************************************)
(* Groups: sequences of up to MaxGroupOps service calls on empty tables.   *)
(***************************************************************************)
CustomGroupKeys == {"manage_custom", "manage_fabrics"}

OperationLists ==
    {<<[operation_id |-> "getFabrics", api_name |-> "manage"]>>,
     <<[operation_id |-> "getFabrics", api_name |-> "analyze"]>>,
     <<[operation_id |-> "deleteVlan", api_name |-> "manage"],
       [operation_id |-> "createVlan", api_name |-> "manage"]>>}

OperationIdLists == {{"getFabrics"}, {"deleteVlan", "getVlan"}}

InitGroups == InitStream

NextGroups ==
    \/ \E group_key \in CustomGroupKeys : CreateGroup(group_key)
    \/ \E group_id \in 1..MaxGroupId :
          \/ UpdateGroup(group_id, Some("curated"), Some(FALSE))
          \/ DeleteGroup(group_id)
          \/ \E operations \in OperationLists :
                AddOperationsToGroup(group_id, operations)
          \/ \E operation_ids \in OperationIdLists :
                RemoveOperationsFromGroup(group_id, operation_ids)
    \/ \E force \in BOOLEAN : GenerateDefaultGroups(force)

SpecGroups == InitGroups /\ [][NextGroups]_vars

\* the groups operation (api_name, operation_id) is a member of
GroupsOf(api_name, operation_id) ==
    {m.group_id : m \in {x \in resource_group_mappings :
                            /\ x.api_name = api_name
                            /\ x.operation_id = operation_id}}

\* C18: whatever resource-group calls have been made, every operation
\* (namespace, operation_id) is a member of at most one group, and every
\* membership is in a group that exists.
OperationInOneGroup ==
    /\ \A ep \in api_endpoints :
          Cardinality(GroupsOf(ep.api_name, ep.operation_id)) <= 1
    /\ \A m \in resource_group_mappings : ~IsNone(GroupById(m.group_id))

\* a forced regeneration was refused because an operation of a group it
\* would create is a member of a custom group
RegenerationRefused ==
    /\ last_group_op.op = "generate_default_groups"
    /\ last_group_op.force
    /\ Get(last_group_op.result).raised = "IntegrityError"
    /\ \E g \in resource_groups :
          /\ g.is_custom
          /\ \E m \in resource_group_mappings : m.group_id = g.id

\* the step is a call of generate_default_groups that returned
Generated(force) ==
    /\ last_group_op'.seq # last_group_op.seq
    /\ last_group_op'.op = "generate_default_groups"
    /\ last_group_op'.force = force
    /\ Get(last_group_op'.result).raised = ""

Namespaces == {ep.api_name : ep \in api_endpoints}

\* the groups whose key is in the namespace
NamespaceGroups(groups, namespace) ==
    {g \in groups : startswith(g.group_key, namespace \o "_")}

\* every endpoint of the namespace is a member of the group of its key
DefaultGroupsCreated(groups, mappings, namespace) ==
    \A ep \in {e \in api_endpoints : e.api_name = namespace} :
        \E g \in groups :
            /\ g.group_key = group_key_of(ep)
            /\ [group_id |-> g.id, operation_id |-> ep.operation_id,
                api_name |-> ep.api_name] \in mappings

\* C19: an unforced generation is decided for the tables as a whole: when
\* any group exists it creates nothing and returns 0, and when none exists
\* every namespace gets its default groups.
UnforcedGenerationAllOrNothing ==
    [][Generated(FALSE)
       => IF resource_groups # {}
          THEN /\ UNCHANGED <<resource_groups, resource_group_mappings>>
               /\ Get(last_group_op'.result).value = 0
          ELSE /\ \A namespace \in Namespaces :
                     DefaultGroupsCreated(resource_groups', resource_group_mappings',
                                          namespace)
               /\ Get(last_group_op'.result).value = Cardinality(resource_groups')
      ]_vars

\* an unforced generation returned 0 while a namespace had no group
NamespaceLeftWithoutGroups ==
    /\ last_group_op.op = "generate_default_groups"
    /\ ~last_group_op.force
    /\ Get(last_group_op.result) = Returned(0)
    /\ \E namespace \in Namespaces :
          /\ NamespaceGroups(resource_groups, namespace) = {}
          /\ ~DefaultGroupsCreated(resource_groups, resource_group_mappings, namespace)
    /\ \E namespace \in Namespaces :
          NamespaceGroups(resource_groups, namespace) # {}

\* C19 as stated: an unforced generation skips the namespaces that have a
\* group and creates the default groups of every namespace that has none.
UnforcedGenerationPerNamespace ==
    [][Generated(FALSE)
       => \A namespace \in Namespaces :
             IF NamespaceGroups(resource_groups, namespace) # {}
             THEN NamespaceGroups(resource_groups', namespace)
                     = NamespaceGroups(resource_groups, namespace)
             ELSE DefaultGroupsCreated(resource_groups', resource_group_mappings',
                                       namespace)
      ]_vars

\* the members of a group
Members(mappings, group_id) == {m \in mappings : m.group_id = group_id}

\* C20: a call of generate_default_groups, forced or not, returning or
\* raising, leaves every existing group as it was (row and membership); an
\* unforced generation that follows an unforced generation creates no group
\* and changes neither table.
GenerationKeepsExistingGroups ==
    [][(/\ last_group_op'.seq # last_group_op.seq
        /\ last_group_op'.op = "generate_default_groups")
       => /\ \A g \in resource_groups :
                /\ g \in resource_groups'
                /\ Members(resource_group_mappings', g.id)
                      = Members(resource_group_mappings, g.id)
          /\ (/\ last_group_op.op = "generate_default_groups"
              /\ ~last_group_op.force
              /\ ~last_group_op'.force)
             => /\ UNCHANGED <<resource_groups, resource_group_mappings>>
                /\ Get(last_group_op'.result) = Returned(0)
      ]_vars

\* a forced regeneration created groups next to a hand-edited one, which
\* kept its description, its disabled flag and its members
RegeneratedBesideEditedGroup ==
    /\ last_group_op.op = "generate_default_groups"
    /\ last_group_op.force
    /\ Get(last_group_op.result).raised = ""
    /\ Get(last_group_op.result).value > 0
    /\ \E g \in resource_groups :
          /\ g.description = Some("curated")
          /\ ~g.is_enabled
          /\ Members(resource_group_mappings, g.id) # {}

(***************************************************************************)
(* Catalog loading: APILoader (core/api_loader.py) and                     *)
(* NexusDashboardMCP.load_api / load_all_apis (core/mcp_server.py).  A     *)
(* document on disk is missing, is not JSON, or is a JSON object.  Of an   *)
(* object the model keeps whether it has the key "openapi", what its       *)
(* "info" is (absent, null, an object without or with "title") and its     *)
(* "paths" (absent, or a dict from path to path item, in document order).  *)
(* A path item is a dict from its keys to objects, of which the model      *)
(* keeps the operationId.                                                  *)
(***************************************************************************)
\* APIRegistry.APIS, in definition order
ApiOrder == <<"manage", "analyze", "infra", "onemanage">>

\* the number of registered APIs considered
MaxApis == 2
ApiNames == {ApiOrder[k] : k \in 1..MaxApis}

\* the number of paths of a document
MaxPaths == 2
PathOrder == <<"/fabrics", "/fabrics/{id}", "/vlans">>

PathItems ==
    { [get |-> Some("getFabrics")],
      [get |-> None, post |-> Some("createFabric"), parameters |-> None],
      [delete |-> Some("deleteFabric"), head |-> None] }

\* the dicts of n paths: the first n names of PathOrder, each with an item
PathDicts(n) == [1..n -> PathItems]

Infos == {"absent", "null", "untitled", "titled"}

JsonObjects ==
    [openapi : BOOLEAN, info : Infos,
     paths : {None} \cup {Some(d) : d \in UNION {PathDicts(n) : n \in 0..MaxPaths}}]

MissingFile == [file |-> "missing", value |-> None]
UnparsableFile == [file |-> "unparsable", value |-> None]
JsonFile(object) == [file |-> "json", value |-> Some(object)]

SpecFiles == {MissingFile, UnparsableFile} \cup {JsonFile(o) : o \in JsonObjects}

\* get_enabled_apis: the enabled definitions, in definition order
get_enabled_apis(enabled) ==
    LET Enabled(name) == name \in enabled
    IN  SelectSeq(SubSeq(ApiOrder, 1, MaxApis), Enabled)

\* APILoader.load_openapi_spec: None when the file is missing or json.load
\* fails
load_openapi_spec(spec_file) ==
    IF spec_file.file = "json" THEN spec_file.value ELSE None

\* bool(spec) of a parsed object: a dict without keys is falsy
Truthy(spec) == spec.openapi \/ spec.info # "absent" \/ ~IsNone(spec.paths)

\* APILoader.validate_spec: (is_valid, errors); "title" not in spec["info"]
\* raises TypeError when the value of "info" is null
validate_spec(spec) ==
    IF spec.info = "null" THEN Raised("TypeError")
    ELSE LET errors ==
                 (IF ~spec.openapi THEN <<"Missing 'openapi' version field">>
                  ELSE <<>>)
              \o (IF spec.info = "absent" THEN <<"Missing 'info' section">>
                  ELSE IF spec.info = "untitled"
                  THEN <<"Missing 'info.title' field">>
                  ELSE <<>>)
              \o (IF IsNone(spec.paths) THEN <<"Missing 'paths' section">>
                  ELSE IF Get(spec.paths) = <<>>
                  THEN <<"'paths' section is empty">>
                  ELSE <<>>)
         IN  Returned([is_valid |-> errors = <<>>, errors |-> errors])

\* the methods count_endpoints counts
COUNTED_METHODS == <<"get", "post", "put", "delete", "patch">>

\* the methods list_operations lists
LISTED_METHODS == <<"get", "post", "put", "delete", "patch", "head", "options">>

\* the entries of a sequence that satisfy Keep, counted
Count(seq, Keep(_)) == Len(SelectSeq(seq, Keep))

\* APILoader.count_endpoints: counts["total"]
count_endpoints(spec) ==
    LET paths == Get(spec.paths)
        RECURSIVE total(_)
        total(k) ==
            IF k > Len(paths) THEN 0
            ELSE LET In(method) == method \in DOMAIN paths[k]
                 IN  Count(COUNTED_METHODS, In) + total(k + 1)
    IN  total(1)

\* the operations list_operations appends for one path item, over methods
RECURSIVE OperationsOfItem(_, _, _)
OperationsOfItem(path, path_item, methods) ==
    IF methods = <<>> THEN <<>>
    ELSE LET method == Head(methods) IN
         (IF method \in DOMAIN path_item
          THEN <<[method |-> upper(method), path |-> path,
                  operation_id |->
                      IF IsNone(path_item[method]) THEN method \o "_" \o path
                      ELSE Get(path_item[method])]>>
          ELSE <<>>)
         \o OperationsOfItem(path, path_item, Tail(methods))

\* APILoader.list_operations
list_operations(spec) ==
    LET paths == Get(spec.paths)
        RECURSIVE from(_)
        from(k) ==
            IF k > Len(paths) THEN <<>>
            ELSE OperationsOfItem(PathOrder[k], paths[k], LISTED_METHODS)
                 \o from(k + 1)
    IN  from(1)

\* op["api_name"] = api_name for every listed operation
Tagged(ops, api_name) ==
    [k \in DOMAIN ops |-> [api_name |-> api_name] @@ ops[k]]

\* load_all_apis: one iteration of its loop, a whole load_api(api_def.name).
\* load_api returns False for a document that did not load or is not valid;
\* else it stores the document, counts its endpoints and extends
\* self.operations.  An exception out of validate_spec leaves load_api and
\* load_all_apis.  The loader records the endpoint total logged per API.
LoadApi ==
    /\ loader.pc = "loading"
    /\ loader.next <= Len(enabled_apis)
    /\ LET api_name == enabled_apis[loader.next]
           spec == load_openapi_spec(spec_files[api_name])
       IN
       IF IsNone(spec) \/ ~Truthy(Get(spec))
       THEN /\ loader' = [loader EXCEPT !.next = @ + 1]
            /\ UNCHANGED <<loaded_apis, loaded_operations>>
       ELSE LET validated == validate_spec(Get(spec)) IN
            IF validated.raised # ""
            THEN /\ loader' = [loader EXCEPT !.pc = "raised",
                                             !.raised = validated.raised]
                 /\ UNCHANGED <<loaded_apis, loaded_operations>>
            ELSE IF ~validated.value.is_valid
            THEN /\ loader' = [loader EXCEPT !.next = @ + 1]
                 /\ UNCHANGED <<loaded_apis, loaded_operations>>
            ELSE /\ loaded_apis' = loaded_apis \cup {api_name}
                 /\ loaded_operations' =
                      loaded_operations
                      \o Tagged(list_operations(Get(spec)), api_name)
                 /\ loader' = [loader EXCEPT
                        !.next = @ + 1,
                        !.loaded_count = @ + 1,
                        !.totals = [@ EXCEPT ![api_name] =
                                        Some(count_endpoints(Get(spec)))]]
    /\ UNCHANGED <<now, envVars, spec_files, enabled_apis, rgVars, sseVars,
                   cfgVars, auditVars, upVars, calls>>

\* load_all_apis: the loop is exhausted, loaded_count is returned
LoadAllApisReturn ==
    /\ loader.pc = "loading"
    /\ loader.next > Len(enabled_apis)
    /\ loader' = [loader EXCEPT !.pc = "returned"]
    /\ UNCHANGED <<now, envVars, spec_files, enabled_apis, loaded_apis,
                   loaded_operations, rgVars, sseVars, cfgVars, auditVars,
                   upVars, calls>>

\* load_all_apis has been called on a fresh server: any subset of the
\* registered APIs is enabled, each API has a document of any kind
InitCatalog ==
    /\ now = 0
    /\ transport = "stdio"
    /\ mcp_api_token = None
    /\ api_retry_attempts = 1
    /\ security_config = <<>>
    /\ cached_config = None
    /\ cache_timestamp = None
    /\ toggle = [pc |-> "idle", enabled |-> FALSE, count |-> 0]
    /\ audit_log = <<>>
    /\ cluster_name = "prod"
    /\ audit_cluster_name = cluster_name
    /\ api_client = None
    /\ clients = <<>>
    /\ upstream = [c \in CallIds |-> <<>>]
    /\ calls = [c \in CallIds |-> IdleCall]
    /\ NoStreams
    /\ NoResourceGroups
    /\ spec_files \in [ApiNames -> SpecFiles]
    /\ \E enabled \in SUBSET ApiNames : enabled_apis = get_enabled_apis(enabled)
    /\ loaded_apis = {}
    /\ loaded_operations = <<>>
    /\ loader = [pc |-> "loading", next |-> 1, loaded_count |-> 0,
                 raised |-> "", totals |-> [a \in ApiNames |-> None]]

NextCatalog == LoadApi \/ LoadAllApisReturn

SpecCatalog == InitCatalog /\ [][NextCatalog]_vars

\* load_all_apis has returned, or an exception has left it
Loaded == loader.pc \in {"returned", "raised"}

\* the operations the catalog holds for the API, in catalog order
OperationsOf(api_name) ==
    LET Of(op) == op.api_name = api_name IN SelectSeq(loaded_operations, Of)

\* the document is a JSON object that passes the structural validation: it
\* has "openapi", "info" with a "title" and "paths" that is not empty
ValidDocument(spec_file) ==
    /\ spec_file.file = "json"
    /\ Get(spec_file.value).openapi
    /\ Get(spec_file.value).info = "titled"
    /\ ~IsNone(Get(spec_file.value).paths)
    /\ Get(Get(spec_file.value).paths) # <<>>

\* C21: when loading has ended, an enabled API whose document is missing,
\* unparsable or structurally invalid has no operation in the catalog, and
\* every enabled API with a valid document has all of its operations there,
\* whatever the documents of the other APIs are.
CatalogIsolatedPerNamespace ==
    Loaded =>
    \A k \in DOMAIN enabled_apis :
        LET api_name == enabled_apis[k] IN
        IF ValidDocument(spec_files[api_name])
        THEN OperationsOf(api_name)
               = Tagged(list_operations(Get(spec_files[api_name].value)), api_name)
        ELSE OperationsOf(api_name) = <<>>

\* the (path, method) pairs of the document whose method is one of get,
\* post, put, delete, patch
Endpoints(spec) ==
    UNION {{<<PathOrder[k], upper(COUNTED_METHODS[m])>> :
               m \in {n \in DOMAIN COUNTED_METHODS :
                         COUNTED_METHODS[n] \in DOMAIN Get(spec.paths)[k]}} :
           k \in DOMAIN Get(spec.paths)}

\* C22: for a loaded document the catalog holds exactly one operation for
\* every (path, method) pair whose method is get, post, put, delete or
\* patch, none for any other key of a path item, and as many operations as
\* the endpoint total counted for the document.
OneOperationPerEndpoint ==
    \A api_name \in loaded_apis :
        LET spec == Get(spec_files[api_name].value)
            ops == OperationsOf(api_name)
        IN
        /\ \A e \in Endpoints(spec) :
               Cardinality({i \in DOMAIN ops :
                               <<ops[i].path, ops[i].method>> = e}) = 1
        /\ \A i \in DOMAIN ops : <<ops[i].path, ops[i].method>> \in Endpoints(spec)
        /\ Len(ops) = Get(loader.totals[api_name])

(***************************************************************************)
(* The retry loop of NexusAPIClient.request: stdio calls under every retry *)
(* budget from 1 to MaxRetryAttempts + 1, with every answer of Nexus       *)
(* Dashboard to each login and each attempt.                               *)
(***************************************************************************)
RetryRequests ==
    {[name |-> "manage_getFabrics", arguments |-> <<>>],
     [name |-> "manage_deleteVlan", arguments |-> [id |-> "10"]]}

InitRetry ==
    /\ now = 0
    /\ transport = "stdio"
    /\ mcp_api_token = None
    /\ api_retry_attempts \in 1..(MaxRetryAttempts + 1)
    /\ security_config \in {<<>>, <<[edit_mode_enabled |-> TRUE]>>}
    /\ cached_config = None
    /\ cache_timestamp = None
    /\ toggle = [pc |-> "idle", enabled |-> FALSE, count |-> 0]
    /\ audit_log = <<>>
    /\ cluster_name = "prod"
    /\ audit_cluster_name = cluster_name
    /\ api_client = None
    /\ clients = <<>>
    /\ upstream = [c \in CallIds |-> <<>>]
    /\ calls = [c \in CallIds |-> IdleCall]
    /\ NoStreams
    /\ NoResourceGroups
    /\ NoCatalog

NextRetry ==
    \E c \in CallIds :
        \/ HandleToolCall(c, RetryRequests)
        \/ Dispatch(c)

SpecRetry == InitRetry /\ [][NextRetry]_vars

\* the positions in upstream[c] of the sends of the request itself
Sends(c) == {i \in DOMAIN upstream[c] : upstream[c][i].kind = "request"}

\* the positions in upstream[c] of the logins that follow a send: the
\* re-authentications
Reauthentications(c) ==
    {i \in DOMAIN upstream[c] :
        /\ upstream[c][i].kind = "login"
        /\ \E j \in Sends(c) : j < i}

\* request() of call c has ended, after at least one send
RequestEnded(c) ==
    /\ calls[c].pc \in {"h_audit", "done"}
    /\ Sends(c) # {}

\* execute_request raised because request() had returned None
ReturnedNone(c) ==
    /\ ~IsNone(calls[c].contents)
    /\ Get(calls[c].contents).error
         = "API request failed: 'NoneType' object has no attribute 'headers'"

\* C23: within one request: a 401 to the first send is followed by a
\* re-authentication and, when the budget allows a second send, by one retry;
\* there is at most one re-authentication; a failed send with budget left is
\* followed at once by the next send; the sends never exceed
\* api_retry_attempts; and when the request ends without a response, the
\* error of the last send is raised.
RetryDiscipline ==
    /\ [](\A c \in CallIds :
            /\ Cardinality(Reauthentications(c)) <= 1
            /\ Cardinality(Sends(c)) <= api_retry_attempts
            /\ (RequestEnded(c) /\ Get(calls[c].contents).kind # "response")
               => /\ ~IsNone(calls[c].last_exception)
                  /\ Get(calls[c].contents).error
                       = "API request failed: " \o Get(calls[c].last_exception))
    /\ [][\A c \in CallIds :
            /\ (calls[c].pc = "r_send" /\ calls'[c].pc = "r_reauth")
               => /\ calls[c].attempt = 0
                  /\ upstream'[c] = Append(upstream[c], LoginEntry(clients[Get(calls[c].client)]))
            /\ (calls[c].pc = "r_reauth" /\ calls'[c] # calls[c]
                   /\ api_retry_attempts >= 2)
               => /\ calls'[c].pc = "r_send"
                  /\ Len(upstream'[c]) = Len(upstream[c]) + 1
                  /\ upstream'[c][Len(upstream'[c])].kind = "request"
            /\ (calls[c].pc = "r_send" /\ calls'[c].pc = "r_send"
                   /\ calls'[c] # calls[c])
               => /\ Len(upstream'[c]) = Len(upstream[c]) + 1
                  /\ upstream'[c][Len(upstream'[c])].kind = "request"
                  /\ calls'[c].attempt = calls[c].attempt + 1
            /\ (calls[c].pc = "r_send" /\ calls'[c].pc = "h_audit"
                   /\ Get(calls'[c].contents).kind # "response")
               => Cardinality(Sends(c)) = api_retry_attempts]_vars

\* C29: a request() that has ended has returned a response or has raised the
\* error of a send; it has never returned without a response.
RequestNeverReturnsNone ==
    \A c \in CallIds : RequestEnded(c) => ~ReturnedNone(c)

\* C30: the retry sent after a 401-triggered re-authentication carries the
\* session cookies and the bearer token the client holds after that
\* re-authentication.
RetryCarriesNewCredentials ==
    [][\A c \in CallIds :
          (calls[c].pc = "r_reauth" /\ calls'[c].pc = "r_send")
          => LET k == Get(calls[c].client)
                 retry == upstream'[c][Len(upstream'[c])]
             IN  /\ retry.cookies = clients'[k].cookies
                 /\ retry.bearer = clients'[k].access_token]_vars

(***************************************************************************)
(* Concurrent dispatches on one AuthMiddleware: the server runs the        *)
(* handler of every tools/call in a task of its own, so a call may arrive  *)
(* while earlier calls are suspended at an await of get_api_client or      *)
(* request.                                                                *)
(***************************************************************************)
\* the call_tool handler registered in run(), entered while earlier calls
\* are still being served
HandleToolCallConcurrent(c, requests) ==
    /\ transport = "stdio"
    /\ MayArrive(c)
    /\ \E request \in requests :
         Goto(c, "h_resolve", [rpc |-> "tools/call", name |-> request.name,
                               arguments |-> request.arguments])
    /\ UNCHANGED <<now, envVars, catVars, rgVars, sseVars, cfgVars, auditVars, upVars>>

ClientRequests == {[name |-> "manage_getFabrics", arguments |-> <<>>]}

InitClient ==
    /\ now = 0
    /\ transport = "stdio"
    /\ mcp_api_token = None
    /\ api_retry_attempts = 1
    /\ security_config = <<>>
    /\ cached_config = None
    /\ cache_timestamp = None
    /\ toggle = [pc |-> "idle", enabled |-> FALSE, count |-> 0]
    /\ audit_log = <<>>
    /\ cluster_name = "prod"
    /\ audit_cluster_name = cluster_name
    /\ api_client = None
    /\ clients = <<>>
    /\ upstream = [c \in CallIds |-> <<>>]
    /\ calls = [c \in CallIds |-> IdleCall]
    /\ NoStreams
    /\ NoResourceGroups
    /\ NoCatalog

NextClient ==
    \E c \in CallIds :
        \/ HandleToolCallConcurrent(c, ClientRequests)
        \/ ResolveOperation(c)
        \/ EnforceSecurity(c)
        \/ GetApiClient(c)
        \/ GetCredentials(c)
        \/ GetApiClientLogin(c)
        \/ RequestLogin(c)
        \/ RequestReply(c)
        \/ RequestReauth(c)
        \/ LogOperation(c)

SpecClient == InitClient /\ [][NextClient]_vars

\* call c awaits the answer to a login that is not a re-authentication
AwaitsLogin(c) == calls[c].pc \in {"h_login", "r_login"}

\* C24: however concurrent dispatches interleave, at most one upstream
\* client is ever created, no two dispatches are logging in at the same
\* time, and every request is sent with the credentials of a completed
\* login.
ClientInitializedOnce ==
    /\ Len(clients) <= 1
    /\ \A c, d \in CallIds : (AwaitsLogin(c) /\ AwaitsLogin(d)) => c = d
    /\ \A c \in CallIds : \A i \in Sends(c) :
           ~IsNone(upstream[c][i].bearer) \/ ~IsNone(upstream[c][i].cookies)

\* the cluster row with that id
ClusterById(cluster_id) == CHOOSE k \in Clusters : k.id = cluster_id

\* C25: every audit record carries the actor, which for a call made by an
\* authenticated principal is the principal's user name or the legacy-token
\* marker, and the cluster of a record of a call that used the upstream
\* client is the cluster that client is connected to.
AuditCarriesActorAndCluster ==
    \A i \in DOMAIN audit_log :
        LET c == audit_log[i].call IN
        /\ ~IsNone(audit_log[i].user_id)
        /\ calls[c].auth.is_valid
           => audit_log[i].user_id
                = (IF calls[c].auth.is_legacy_token THEN Some("legacy_token")
                   ELSE calls[c].auth.user)
        /\ ~IsNone(calls[c].client)
           => /\ ~IsNone(audit_log[i].cluster_id)
              /\ ClusterById(Get(audit_log[i].cluster_id)).url
                   = clients[Get(calls[c].client)].base_url

(***************************************************************************)
(* Tool resolution: the stdio dispatcher called with the name of every     *)
(* tool of the catalog.                                                    *)
(***************************************************************************)
ToolRequests ==
    {[name |-> AllTools[i], arguments |-> [fabric |-> "f1", id |-> "7"]] :
        i \in DOMAIN AllTools}

NextTools ==
    \E c \in CallIds :
        \/ HandleToolCall(c, ToolRequests)
        \/ Dispatch(c)

SpecTools == InitResolve /\ [][NextTools]_vars

\* the operation from which the tool of that name was built
BuiltFrom(tool_name) ==
    Operations[CHOOSE i \in DOMAIN Operations : ToolName(Operations[i]) = tool_name]

\* C26: a call that names a tool of the catalog resolves to the operation
\* the tool was built from, and every request it sends upstream has that
\* operation's method and goes to that operation's namespace.
ToolExecutesItsOperation ==
    \A c \in CallIds :
        (calls[c].rpc = "tools/call" /\ calls[c].pc \notin {"idle", "h_resolve"}
            /\ \E i \in DOMAIN Operations : ToolName(Operations[i]) = calls[c].name)
        => LET op == BuiltFrom(calls[c].name) IN
           /\ calls[c].api_name = op.api_name
           /\ calls[c].operation_id = op.operation_id
           /\ calls[c].method = op.method
           /\ \A i \in Sends(c) :
                  /\ upstream[c][i].method = op.method
                  /\ startswith(upstream[c][i].url,
                                clients[Get(calls[c].client)].base_url
                                \o BasePaths[op.api_name] \o "/")

(***************************************************************************)
(* Per-user edit mode: HTTP calls of write and read tools by users with    *)
(* and without the edit-mode capability and by the legacy token, while the *)
(* global edit mode is enabled.                                            *)
(***************************************************************************)
CapabilityAuthorizations ==
    {Some("Bearer tok-grace"), Some("Bearer tok-dave"), Some("Bearer tok-alice"),
     Some("Bearer tok-bob"), Some("Bearer shared-secret")}

CapabilityRequests ==
    {[name |-> "manage_createVlan", arguments |-> <<>>],
     [name |-> "manage_deleteVlan", arguments |-> [id |-> "10"]],
     [name |-> "manage_getFabrics", arguments |-> <<>>]}

InitCapability ==
    /\ now = 0
    /\ transport = "http"
    /\ mcp_api_token \in {None, Some("shared-secret")}
    /\ api_retry_attempts = MaxRetryAttempts
    /\ security_config = <<[edit_mode_enabled |-> TRUE]>>
    /\ cached_config = None
    /\ cache_timestamp = None
    /\ toggle = [pc |-> "idle", enabled |-> FALSE, count |-> 0]
    /\ audit_log = <<>>
    /\ cluster_name = "default"
    /\ audit_cluster_name = cluster_name
    /\ api_client = None
    /\ clients = <<>>
    /\ upstream = [c \in CallIds |-> <<>>]
    /\ calls = [c \in CallIds |-> IdleCall]
    /\ NoStreams
    /\ NoResourceGroups
    /\ NoCatalog

NextCapability ==
    \E c \in CallIds :
        \/ McpMessageAuth(c, CapabilityAuthorizations, {NoSessionHeaders})
        \/ McpMessageToolsCall(c, CapabilityRequests)

SpecCapability == InitCapability /\ [][NextCapability]_vars

\* the principal of call c is a user whose edit-mode capability is false
LacksEditMode(c) ==
    /\ calls[c].auth.is_valid
    /\ ~IsNone(calls[c].auth.user)
    /\ ~has_edit_mode(UserByName(Get(calls[c].auth.user)))

\* call c was refused: mcp_message answered with its denial error, or the
\* dispatcher returned a PermissionError
Refused(c) ==
    \/ RejectedWith(c, "-32600", "")
    \/ /\ ~IsNone(calls[c].contents)
       /\ Get(calls[c].contents).type = "PermissionError"

\* C27: while the global edit mode is enabled, a call of a write operation
\* by a user without the edit-mode capability is refused, and every request
\* with a write method that is sent upstream belongs to a principal that
\* has the capability.
WriteNeedsUserEditMode ==
    \A c \in CallIds :
        /\ (Done(c) /\ ToolCall(c) /\ NamesWriteOperation(c) /\ LacksEditMode(c)
               /\ StoredEditMode)
           => Refused(c)
        /\ \A i \in Sends(c) :
               is_write_operation(upstream[c][i].method)
               => calls[c].auth.has_edit_mode

(***************************************************************************)
(* The edit-mode cache under SecurityConfigService.set_edit_mode: gate     *)
(* checks that read the configuration while the service's own toggle runs. *)
(***************************************************************************)
NextCache ==
    \/ \E c \in CallIds :
         \/ EnforceSecurityCall(c, {"DELETE", "GET"})
         \/ EnforceSecurity(c)
         \/ GetSecurityConfigSelect(c)
         \/ GetSecurityConfigInsert(c)
         \/ GetSecurityConfigStore(c)
    \/ \E enabled \in BOOLEAN : SetEditModeCommit(enabled)
    \/ SetEditModeInvalidate
    \/ Tick

SpecCache == InitGate /\ [][NextCache]_vars

\* set_edit_mode has run and returned, and no get_security_config is between
\* its cache test and its return
CacheQuiescent ==
    /\ toggle.count > 0
    /\ toggle.pc = "idle"
    /\ \A c \in CallIds : calls[c].pc # "h_gate" /\ ~InGate(c)

\* C28: once set_edit_mode and every get_security_config that ran beside it
\* have returned, the cache is empty or holds the value the toggle stored.
CacheHoldsPostToggleValue ==
    CacheQuiescent
    => \/ IsNone(cached_config)
       \/ Get(cached_config).edit_mode_enabled = StoredEditMode

=============================================================================
